---------------------------- MODULE Spec2Model ----------------------------
(***************************************************************************)
(* Decision core of the GloMPO optimisation manager:                       *)
(*   - the lazy combinator engine of hunters and checkers                  *)
(*     (glompo/common/corebase.py),                                        *)
(*   - the cache of the data regressor (glompo/core/regression.py),        *)
(*   - the naming of checkpoints (glompo/core/checkpointing.py),           *)
(*   - the hunt / convergence loop of the manager.                         *)
(* Each part has its own specification over its own variables; the         *)
(* variables of the other parts are held at their initial values.          *)
(***************************************************************************)
EXTENDS Integers, Sequences, FiniteSets, TLC

VARIABLES
    tree,       \* the combinator tree, each node carrying its _last_result
    trace,      \* call / return events of the most recent top-level call
    ret,        \* value returned by the most recent evaluation
    mle_cache,  \* DataRegressor.mle_cache: cache key -> (hash, result)
    mcc_cache,  \* DataRegressor.mcc_cache: cache key -> (hash, result)
    reg_last,   \* the most recent call of the regressor and what it did
    naming_format,  \* CheckpointingControl.naming_format
    naming_format_re,   \* CheckpointingControl.naming_format_re
    count,      \* CheckpointingControl.count: <<>> is None, <<n>> the integer n
    dir_exists, \* whether checkpointing_dir exists
    dir,        \* names of the entries of checkpointing_dir
    name,       \* the name returned by the most recent get_name
    calls,      \* number of get_name calls made
    keep_past,  \* CheckpointingControl.keep_past
    raise_checkpoint_fail,  \* CheckpointingControl.raise_checkpoint_fail
    created,    \* the entries of checkpointing_dir, oldest first
    last_write, \* outcome of the write under the current name
    ckpt_run,   \* the run as the checkpointing sees it
    ckpt_warned,    \* a checkpoint failure was demoted to a warning
    run_state,  \* STARTING, RUNNING, CONVERGING or STOPPED
    pc,         \* the step of the main loop the manager is at
    wstate,     \* lifecycle state of each worker handle, by opt_id
    f_call_opt, \* trajectory store: the f_call_opt history of each worker
    f_counter,  \* function calls counted by the manager
    conv_counter,   \* workers that converged by themselves
    kill_counter,   \* workers killed
    o_counter,  \* workers started
    hunt_victims,   \* ids of the killed workers
    todo,       \* pairs (hunter, victim) left in the current hunt round
    round_killed,   \* workers killed in the current hunt round
    evaluated,  \* whether the pair the hunt round took last was evaluated
    hunters,    \* the hunter expression
    hunt_ret,   \* what the last evaluation of the hunter expression gave
    checkers,   \* the convergence expression
    conv_ret,   \* what the last evaluation of the convergence expression gave
    stop_requested, \* an external stop was requested
    late,       \* killed workers of which the last drain took a point
    summary,    \* the run summary: the records written at the end
    kac,        \* a KillsAfterConvergence checker: its fields
    kac_mgr,    \* the manager it is evaluated on: conv_counter, hunt_victims
    kac_ret,    \* what its most recent evaluation returned
    conv_moment,    \* len(hunt_victims) when conv_counter reached n_converged
    mfc,        \* a MinFuncCalls hunter: its fields
    mfc_ret,    \* what its most recent evaluation gave
    ctree,      \* an expression, built once with | & and once with + *
    given,      \* the outcomes of its leaves in the most recent evaluation
    otrace,     \* call / return events of its evaluation by __call__
    oret,       \* what __call__ returned
    ctrace,     \* call / return events of its evaluation by check_convergence
    cret,       \* what check_convergence returned
    build,      \* the most recent attempt to build a composite
    described,  \* the most recent rendering of an expression as a string
    ee,         \* an EstimatedEffects instance and the most recent call on it
    trig,       \* a run as its checkpoint triggers see it
    mle,        \* one estimate_mle call, attempt by attempt
    thr         \* threads calling estimate_mle on one regressor

combiVars == <<tree, trace, ret>>
regVars == <<mle_cache, mcc_cache, reg_last>>
ckptVars == <<naming_format, naming_format_re, count, dir_exists, dir, name, calls, keep_past,
              raise_checkpoint_fail, created, last_write, ckpt_run,
              ckpt_warned>>
huntVars == <<run_state, pc, wstate, f_call_opt, f_counter, conv_counter,
              kill_counter, o_counter, hunt_victims, todo, round_killed,
              evaluated, hunters, hunt_ret, checkers, conv_ret,
              stop_requested, late, summary>>

kacVars == <<kac, kac_mgr, kac_ret, conv_moment, mfc, mfc_ret>>
chkVars == <<ctree, given, otrace, oret, ctrace, cret>>

(***************************************************************************)
(* Bounds of the model.                                                    *)
(***************************************************************************)
MaxLeaves == 4
MaxResetLeaves == 3  \* leaves of a tree that is also reset by itself
MaxKey == 1         \* cache keys (optimizer ids) are 0..MaxKey
MaxCalls == 4       \* get_name calls in one run
MaxEntries == 3     \* entries created by hand in one directory
MaxFCalls == 2      \* function calls one worker makes
MinPts == 2         \* min_pts of the MinFuncCalls hunter
EarlyMinPts == 1    \* min_pts of a hunter that kills before the last call
MaxConv == 2        \* workers that converge under a KillsAfterConvergence
MaxVictims == 6     \* workers killed under a KillsAfterConvergence

(***************************************************************************)
(* Python values.  _last_result is None, True or False; it is kept as a    *)
(* string so that the three can be compared.                               *)
(***************************************************************************)
PyStr(b) == IF b THEN "True" ELSE "False"

(***************************************************************************)
(* Combinator trees.  A node is identified by its path from the root       *)
(* (1 = base1, 2 = base2).                                                 *)
(***************************************************************************)
Leaf(path) ==
    [kind |-> "Leaf", cls |-> "Stub", id |-> path, last_result |-> "None"]

\* MinFuncCalls(min_pts), a hunter
MinFuncCalls(min_pts) ==
    [kind |-> "Leaf", cls |-> "MinFuncCalls", min_pts |-> min_pts,
     last_result |-> "None"]

\* NOptConverged(nconv) and MaxKills(kills_max), two checkers
NOptConverged(nconv) ==
    [kind |-> "Leaf", cls |-> "NOptConverged", nconv |-> nconv,
     last_result |-> "None"]

MaxKills(kills_max) ==
    [kind |-> "Leaf", cls |-> "MaxKills", kills_max |-> kills_max,
     last_result |-> "None"]

CombiCore(kind, b1, b2) ==
    [kind |-> kind, base1 |-> b1, base2 |-> b2, last_result |-> "None"]

RECURSIVE TreesWith(_, _)
TreesWith(n, path) ==
    IF n = 1 THEN {Leaf(path)}
    ELSE UNION { { CombiCore(k, a, b) :
                      k \in {"Or", "And"},
                      a \in TreesWith(i, path \o <<1>>),
                      b \in TreesWith(n - i, path \o <<2>>) } : i \in 1..(n - 1) }

Trees == UNION { TreesWith(n, <<>>) : n \in 1..MaxLeaves }

RECURSIVE Paths(_, _)
Paths(node, path) ==
    IF node.kind = "Leaf" THEN {path}
    ELSE {path} \cup Paths(node.base1, path \o <<1>>)
                \cup Paths(node.base2, path \o <<2>>)

RECURSIVE LeafPaths(_, _)
LeafPaths(node, path) ==
    IF node.kind = "Leaf" THEN {path}
    ELSE LeafPaths(node.base1, path \o <<1>>)
            \cup LeafPaths(node.base2, path \o <<2>>)

RECURSIVE NodeAt(_, _)
NodeAt(node, path) ==
    IF path = <<>> THEN node
    ELSE NodeAt(IF Head(path) = 1 THEN node.base1 ELSE node.base2, Tail(path))

IsPrefix(p, q) == Len(p) <= Len(q) /\ SubSeq(q, 1, Len(p)) = p

(***************************************************************************)
(* Evaluation.  Call(node, ctx, path) is node.__call__(ctx): it gives the  *)
(* node after the call (the _last_result fields written), whether the call *)
(* raised, the value returned when it did not, and the call / return /     *)
(* raise events in the order they happen.                                  *)
(***************************************************************************)
CallEv(path) == [ev |-> "call", path |-> path, res |-> "None"]
RetEv(path, b) == [ev |-> "ret", path |-> path, res |-> PyStr(b)]
RaiseEv(path) == [ev |-> "raise", path |-> path, res |-> "None"]

Last(s) == s[Len(s)]

\* MinFuncCalls that looks at the history of the hunter
MinFuncCallsOfHunter(node, ctx) ==
    IF ctx.f_call_opt[ctx.hunter_opt_id] = <<>> THEN "Raise"
    ELSE PyStr(Last(ctx.f_call_opt[ctx.hunter_opt_id]) >= node.min_pts)

\* MinFuncCalls.__call__: log.get_history(victim_opt_id, "f_call_opt")[-1]
\* >= min_pts; [-1] of an empty history raises IndexError
MinFuncCallsPredicate(node, ctx) ==
    IF ctx.f_call_opt[ctx.victim_opt_id] = <<>> THEN "Raise"
    ELSE PyStr(Last(ctx.f_call_opt[ctx.victim_opt_id]) >= node.min_pts)

\* the predicate of a leaf: "True", "False", or "Raise" when it raises.
\* The outcome of a stub is fixed by the context.
LeafPredicate(node, ctx) ==
    CASE node.cls = "Stub" -> ctx.outcome[node.id]
      [] node.cls = "MinFuncCalls" -> MinFuncCallsPredicate(node, ctx)
      [] node.cls = "NOptConverged" -> PyStr(ctx.conv_counter >= node.nconv)
      [] node.cls = "MaxKills" -> PyStr(ctx.kill_counter >= node.kills_max)

\* a leaf whose exception is caught and turned into a return of True
LeafCallCaught(node, ctx, path) ==
    LET r == LeafPredicate(node, ctx)
    IN  IF r = "Raise"
        THEN [node |-> node, exc |-> FALSE, res |-> TRUE,
              trace |-> <<CallEv(path), RetEv(path, TRUE)>>]
        ELSE [node |-> [node EXCEPT !.last_result = r], exc |-> FALSE,
              res |-> (r = "True"),
              trace |-> <<CallEv(path), RetEv(path, r = "True")>>]

\* a concrete leaf stores the result in _last_result and returns it
LeafCall(node, ctx, path) ==
    LET r == LeafPredicate(node, ctx)
    IN  IF r = "Raise"
        THEN [node |-> node, exc |-> TRUE, res |-> FALSE,
              trace |-> <<CallEv(path), RaiseEv(path)>>]
        ELSE [node |-> [node EXCEPT !.last_result = r], exc |-> FALSE,
              res |-> (r = "True"),
              trace |-> <<CallEv(path), RetEv(path, r = "True")>>]

\* a reset that leaves the results of the children as they are
ResetNothing(node) == node

\* _CombiCore.reset, called by _CombiCore.__call__
reset(node) ==
    [node EXCEPT !.base1.last_result = "None", !.base2.last_result = "None"]

RECURSIVE Call(_, _, _)

\* what a composite gives when base1 raised, and when base2 raised
Raised1(n0, r1, path) ==
    [node |-> [n0 EXCEPT !.base1 = r1.node], exc |-> TRUE, res |-> FALSE,
     trace |-> <<CallEv(path)>> \o r1.trace \o <<RaiseEv(path)>>]

Raised2(n0, r1, r2, path) ==
    [node |-> [n0 EXCEPT !.base1 = r1.node, !.base2 = r2.node],
     exc |-> TRUE, res |-> FALSE,
     trace |-> <<CallEv(path)>> \o r1.trace \o r2.trace \o <<RaiseEv(path)>>]

Returned1(n0, r1, path) ==
    [node |-> [n0 EXCEPT !.base1 = r1.node], exc |-> FALSE, res |-> r1.res,
     trace |-> <<CallEv(path)>> \o r1.trace \o <<RetEv(path, r1.res)>>]

Returned2(n0, r1, r2, path) ==
    [node |-> [n0 EXCEPT !.base1 = r1.node, !.base2 = r2.node],
     exc |-> FALSE, res |-> r2.res,
     trace |-> <<CallEv(path)>> \o r1.trace \o r2.trace
                   \o <<RetEv(path, r2.res)>>]

\* an OR that evaluates both children whatever the first returns
OrCallEager(node, ctx, path) ==
    LET n0 == reset(node)
        r1 == Call(n0.base1, ctx, path \o <<1>>)
        r2 == Call(n0.base2, ctx, path \o <<2>>)
    IN  IF r1.exc THEN Raised1(n0, r1, path)
        ELSE IF r2.exc THEN Raised2(n0, r1, r2, path)
        ELSE [Returned2(n0, r1, r2, path) EXCEPT
                 !.res = r1.res \/ r2.res,
                 !.trace = <<CallEv(path)>> \o r1.trace \o r2.trace
                               \o <<RetEv(path, r1.res \/ r2.res)>>]

\* an OR that short-circuits on false, as AND does
OrCallAsAnd(node, ctx, path) ==
    LET n0 == reset(node)
        r1 == Call(n0.base1, ctx, path \o <<1>>)
        r2 == Call(n0.base2, ctx, path \o <<2>>)
    IN  IF r1.exc THEN Raised1(n0, r1, path)
        ELSE IF ~r1.res THEN Returned1(n0, r1, path)
        ELSE IF r2.exc THEN Raised2(n0, r1, r2, path)
        ELSE Returned2(n0, r1, r2, path)

\* _OrCore.__call__: reset, then base1(...) or base2(...)
OrCall(node, ctx, path) ==
    LET n0 == reset(node)
        r1 == Call(n0.base1, ctx, path \o <<1>>)
        r2 == Call(n0.base2, ctx, path \o <<2>>)
    IN  IF r1.exc THEN Raised1(n0, r1, path)
        ELSE IF r1.res THEN Returned1(n0, r1, path)
        ELSE IF r2.exc THEN Raised2(n0, r1, r2, path)
        ELSE Returned2(n0, r1, r2, path)

\* an AND that evaluates both children whatever the first returns
AndCallEager(node, ctx, path) ==
    LET n0 == reset(node)
        r1 == Call(n0.base1, ctx, path \o <<1>>)
        r2 == Call(n0.base2, ctx, path \o <<2>>)
    IN  IF r1.exc THEN Raised1(n0, r1, path)
        ELSE IF r2.exc THEN Raised2(n0, r1, r2, path)
        ELSE [Returned2(n0, r1, r2, path) EXCEPT
                 !.res = r1.res /\ r2.res,
                 !.trace = <<CallEv(path)>> \o r1.trace \o r2.trace
                               \o <<RetEv(path, r1.res /\ r2.res)>>]

\* _AndCore.__call__: reset, then base1(...) and base2(...)
AndCall(node, ctx, path) ==
    LET n0 == reset(node)
        r1 == Call(n0.base1, ctx, path \o <<1>>)
        r2 == Call(n0.base2, ctx, path \o <<2>>)
    IN  IF r1.exc THEN Raised1(n0, r1, path)
        ELSE IF ~r1.res THEN Returned1(n0, r1, path)
        ELSE IF r2.exc THEN Raised2(n0, r1, r2, path)
        ELSE Returned2(n0, r1, r2, path)

Call(node, ctx, path) ==
    IF node.kind = "Leaf" THEN LeafCall(node, ctx, path)
    ELSE IF node.kind = "Or" THEN OrCall(node, ctx, path)
    ELSE AndCall(node, ctx, path)

(***************************************************************************)
(* str_with_result.  ShownResults lists, in the order of the rendering,    *)
(* the result printed after each node: a leaf prints its own               *)
(* _last_result, a composite prints its two children between brackets and  *)
(* no result of its own.                                                   *)
(***************************************************************************)
RECURSIVE ShownResults(_, _)
ShownResults(node, path) ==
    IF node.kind = "Leaf"
    THEN <<[path |-> path, shown |-> node.last_result]>>
    ELSE ShownResults(node.base1, path \o <<1>>)
            \o ShownResults(node.base2, path \o <<2>>)

ShownFor(p) ==
    LET s == ShownResults(tree, <<>>)
    IN  { s[i].shown : i \in { j \in 1..Len(s) : s[j].path = p } }

(***************************************************************************)
(* The combinator engine as a state machine: a tree is built, then         *)
(* evaluated any number of times with any outcomes of its leaves.          *)
(***************************************************************************)
CombiInit ==
    /\ tree \in Trees
    /\ trace = <<>>
    /\ ret = "None"

\* what the caller of a top-level call gets: the value, or "Raise"
Outcome(r) == IF r.exc THEN "Raise" ELSE PyStr(r.res)

TopCall(outcome) ==
    LET r == Call(tree, [outcome |-> outcome], <<>>)
    IN  /\ tree' = r.node
        /\ trace' = r.trace
        /\ ret' = Outcome(r)

Evaluate ==
    \E outcome \in [LeafPaths(tree, <<>>) -> {"True", "False", "Raise"}] :
        TopCall(outcome)

\* the node at path p of the tree replaced by its reset
RECURSIVE ResetAt(_, _)
ResetAt(node, p) ==
    IF p = <<>> THEN reset(node)
    ELSE IF Head(p) = 1
         THEN [node EXCEPT !.base1 = ResetAt(node.base1, Tail(p))]
         ELSE [node EXCEPT !.base2 = ResetAt(node.base2, Tail(p))]

\* the trees whose holder also calls reset() by itself
ResetTrees == UNION { TreesWith(n, <<>>) : n \in 1..MaxResetLeaves }

ResetInit ==
    /\ tree \in ResetTrees
    /\ trace = <<>>
    /\ ret = "None"

\* reset() called by itself on a composite of the tree: a top-level call
\* in which no node is evaluated; what the last evaluation returned stays
\* with its caller
Reset ==
    /\ \E p \in { q \in Paths(tree, <<>>) : NodeAt(tree, q).kind # "Leaf" } :
          tree' = ResetAt(tree, p)
    /\ trace' = <<>>
    /\ UNCHANGED ret

(***************************************************************************)
(* The data regressor (glompo/core/regression.py): estimate_mle and its    *)
(* cache.                                                                  *)
(***************************************************************************)
MaxAttempts == 10

\* a cache key: <<>> is None, <<k>> the integer k
NoKey == <<>>
Keys == {NoKey} \cup { <<k>> : k \in 0..MaxKey }
\* truth value of a cache key as Python's `if cache_key` takes it
Truthy(key) == key # NoKey /\ key[1] # 0

\* trajectories (time coordinates t, objective values y): one trajectory,
\* the same with one value of y changed, with y reordered, and with one
\* value of t changed
Trajectories ==
    { [t |-> <<0, 1>>, y |-> <<1, -1>>],
      [t |-> <<0, 1>>, y |-> <<1, -2>>],
      [t |-> <<0, 1>>, y |-> <<-1, 1>>],
      [t |-> <<0, 2>>, y |-> <<1, -1>>] }

\* values a numerical fit may come out with
FitValues == {1, 2}

\* the attempt at which minimize succeeds: the first, a retry, the last
\* retry, none
SuccAt == {0, 1, MaxAttempts - 1, MaxAttempts}

\* hash() of a number with an integral value: -1 is reserved by CPython as
\* the error value, so hash(-1) is -2
PyHash(x) == IF x = -1 THEN -2 ELSE x

\* hash() of a tuple reads nothing but the hashes of its items, in order;
\* the mixing of those hashes is kept symbolic
TupleHash(s) == [i \in 1..Len(s) |-> PyHash(s[i])]

\* hash_key = hash((tuple(t), tuple(y)))
HashKey(t, y) == <<TupleHash(t), TupleHash(y)>>

NoResult == [kind |-> "none", x |-> 0, perturbed |-> 0]
\* mle.x of a successful minimisation
MleResult(x) == [kind |-> "mle", x |-> x, perturbed |-> 0]
\* (b_est, c_est, s_est) as they stand after the loop: the closed-form
\* guess multiplied by one random factor per retry
RoughResult(x, n) == [kind |-> "rough", x |-> IF n = 0 THEN 0 ELSE x, perturbed |-> n]

RegressorCacheItem(h, r) == [hash |-> h, result |-> r]

\* a write that keeps no other entry
CachePutAlone(cache, key, item) == [k \in {key} |-> item]

CachePut(cache, key, item) ==
    [k \in DOMAIN cache \cup {key} |-> IF k = key THEN item ELSE cache[k]]

\* `if cache_key`: the key takes part in caching
Cacheable(key) == Truthy(key)

\* `cache_key and cache_key in self.mle_cache and hash_key == ....hash`
MleCacheHit(t, y, key) ==
    /\ Cacheable(key)
    /\ key \in DOMAIN mle_cache
    /\ HashKey(t, y) = mle_cache[key].hash

\* `cache_key and cache_key in self.mcc_cache and hash_key == ....hash`
MccCacheHit(t, y, key) ==
    /\ Cacheable(key)
    /\ key \in DOMAIN mcc_cache
    /\ HashKey(t, y) = mcc_cache[key].hash

RegInit ==
    /\ mle_cache = << >>
    /\ mcc_cache = << >>
    /\ reg_last = [fn |-> "none", key |-> NoKey, t |-> <<>>, y |-> <<>>,
                   computed |-> FALSE, attempts |-> 0, warned |-> FALSE,
                   sampled |-> FALSE, result |-> NoResult]

\* the closed-form guess of the quick fit, before any retry
ClosedFormGuess == RoughResult(0, 0)

\* what estimate_mle(t, y, cache_key) returns and what it leaves in
\* mle_cache.  succ_at is the attempt at which minimize succeeds
\* (MaxAttempts: at none), x the value it comes out with.
MleOutcome(t, y, key, succ_at, x) ==
    IF MleCacheHit(t, y, key)
    THEN [computed |-> FALSE, attempts |-> 0, warned |-> FALSE,
          result |-> mle_cache[key].result, cache |-> mle_cache]
    ELSE LET ok == succ_at < MaxAttempts
             r  == IF ok THEN MleResult(x)
                         ELSE RoughResult(x, MaxAttempts - 1)
         IN  [computed |-> TRUE,
              attempts |-> IF ok THEN succ_at + 1 ELSE MaxAttempts,
              warned |-> ~ok,
              result |-> r,
              cache |-> IF Cacheable(key)
                        THEN CachePut(mle_cache, key,
                                      RegressorCacheItem(HashKey(t, y), r))
                        ELSE mle_cache]

\* estimate_mle(t, y, cache_key)
estimate_mle(t, y, key, succ_at, x) ==
    LET o == MleOutcome(t, y, key, succ_at, x)
    IN  /\ reg_last' = [fn |-> "estimate_mle", key |-> key, t |-> t, y |-> y,
                        computed |-> o.computed, attempts |-> o.attempts,
                        warned |-> o.warned, sampled |-> FALSE,
                        result |-> o.result]
        /\ mle_cache' = o.cache
        /\ UNCHANGED mcc_cache

EstimateMle ==
    \E d \in Trajectories, key \in Keys, succ_at \in SuccAt, x \in FitValues :
        estimate_mle(d.t, d.y, key, succ_at, x)

\* (median, 5% quantile, 95% quantile) of the samples, per parameter
Posterior(x) == [kind |-> "posterior", x |-> x, perturbed |-> 0]
\* ((b_mle, None), (c_mle, None), (s_mle, None))
MleFallback(r) == [kind |-> "fallback", x |-> r.x, perturbed |-> r.perturbed]

\* estimate_parameters(t, y, cache_key=key).  sampler_ok: run_mcmc returns
\* instead of raising ValueError; x the value the sampler comes out with;
\* succ_at the attempt at which the minimize of the fallback succeeds.
estimate_parameters(t, y, key, sampler_ok, succ_at, x) ==
    IF MccCacheHit(t, y, key)
    THEN /\ reg_last' = [fn |-> "estimate_parameters", key |-> key,
                         t |-> t, y |-> y,
                         computed |-> FALSE, attempts |-> 0, warned |-> FALSE,
                         sampled |-> FALSE, result |-> mcc_cache[key].result]
         /\ UNCHANGED <<mle_cache, mcc_cache>>
    ELSE IF sampler_ok
    THEN /\ reg_last' = [fn |-> "estimate_parameters", key |-> key,
                         t |-> t, y |-> y,
                         computed |-> FALSE, attempts |-> 0, warned |-> FALSE,
                         sampled |-> TRUE, result |-> Posterior(x)]
         /\ mcc_cache' = IF Cacheable(key)
                         THEN CachePut(mcc_cache, key,
                                       RegressorCacheItem(HashKey(t, y),
                                                          Posterior(x)))
                         ELSE mcc_cache
         /\ UNCHANGED mle_cache
    ELSE LET o == MleOutcome(t, y, key, succ_at, x)
         IN  /\ reg_last' = [fn |-> "estimate_parameters", key |-> key,
                             t |-> t, y |-> y,
                             computed |-> o.computed, attempts |-> o.attempts,
                             warned |-> TRUE, sampled |-> TRUE,
                             result |-> MleFallback(o.result)]
             /\ mle_cache' = o.cache
             /\ UNCHANGED mcc_cache

EstimateParameters ==
    \E d \in Trajectories, key \in Keys, sampler_ok \in BOOLEAN,
       succ_at \in SuccAt, x \in FitValues :
        estimate_parameters(d.t, d.y, key, sampler_ok, succ_at, x)

(***************************************************************************)
(* Checkpoint naming (glompo/core/checkpointing.py).  A string, be it a    *)
(* naming format, a pattern or a name, is the sequence of the code points  *)
(* of its characters.                                                      *)
(***************************************************************************)
CountWidth == 3

\* Op(v); the value v is worked out once, however often Op uses it
With(v, Op(_)) == CHOOSE r \in { Op(x) : x \in {v} } : TRUE

\* the characters with the codes 32 to 95 and 97 to 126, in the order of
\* their codes
AsciiChars ==
    <<" ", "!", "\"", "#", "$", "%", "&", "'", "(", ")", "*", "+", ",", "-",
      ".", "/", "0", "1", "2", "3", "4", "5", "6", "7", "8", "9", ":", ";",
      "<", "=", ">", "?", "@", "A", "B", "C", "D", "E", "F", "G", "H", "I",
      "J", "K", "L", "M", "N", "O", "P", "Q", "R", "S", "T", "U", "V", "W",
      "X", "Y", "Z", "[", "\\", "]", "^", "_">>
AsciiLower ==
    <<"a", "b", "c", "d", "e", "f", "g", "h", "i", "j", "k", "l", "m", "n",
      "o", "p", "q", "r", "s", "t", "u", "v", "w", "x", "y", "z", "{", "|",
      "}", "~">>

\* the code points of the characters the strings of this module are
\* written with
OrdTable ==
    [c \in { AsciiChars[i] : i \in DOMAIN AsciiChars } |->
        31 + (CHOOSE i \in DOMAIN AsciiChars : AsciiChars[i] = c)]
    @@ [c \in { AsciiLower[i] : i \in DOMAIN AsciiLower } |->
        96 + (CHOOSE i \in DOMAIN AsciiLower : AsciiLower[i] = c)]
    @@ ("\t" :> 9) @@ ("\n" :> 10) @@ ("\f" :> 12) @@ ("\r" :> 13)

\* ord(c)
Ord(c) == OrdTable[c]

\* the string of the characters chars
RECURSIVE Str(_)
Str(chars) ==
    IF chars = <<>> THEN <<>> ELSE <<Ord(Head(chars))>> \o Str(Tail(chars))

\* the set of the characters chars
Chars(chars) == { Ord(c) : c \in chars }

DIGITS == Chars({"0", "1", "2", "3", "4", "5", "6", "7", "8", "9"})
Zero == Ord("0")
IsDigit(c) == c \in DIGITS
DigitVal(c) == c - Zero

\* int(s) of a string of digits
RECURSIVE ParseInt(_)
ParseInt(s) ==
    IF s = <<>> THEN 0
    ELSE 10 * ParseInt(SubSeq(s, 1, Len(s) - 1)) + DigitVal(s[Len(s)])

RECURSIVE DigitsOf(_)
DigitsOf(n) ==
    IF n < 10 THEN <<Zero + n>>
    ELSE DigitsOf(n \div 10) \o <<Zero + (n % 10)>>

RECURSIVE ZeroPad(_, _)
ZeroPad(s, w) == IF Len(s) >= w THEN s ELSE ZeroPad(<<Zero>> \o s, w)

\* f'{n:0w}' and strftime's fields: at least w digits, zero padded
Fmt(n, w) == ZeroPad(DigitsOf(n), w)

\* s.find(sub, i): the first position from i on at which sub, a string
\* that is not empty, stands in s; 0 when there is none
Find(s, sub, i) ==
    With({ j \in i..(Len(s) - Len(sub) + 1) :
             s[j] = sub[1] /\ SubSeq(s, j, j + Len(sub) - 1) = sub },
         LAMBDA found : IF found = {} THEN 0
                        ELSE CHOOSE j \in found : \A k \in found : j <= k)

\* s.replace(old, new) from the position i of s on: every occurrence of
\* old, from the left, none overlapping another
RECURSIVE ReplaceFrom(_, _, _, _)
ReplaceFrom(s, i, old, new) ==
    With(Find(s, old, i), LAMBDA j :
        IF j = 0 THEN SubSeq(s, i, Len(s))
        ELSE SubSeq(s, i, j - 1) \o new \o ReplaceFrom(s, j + Len(old), old, new))

\* "".join(list)
RECURSIVE Join(_)
Join(list) == IF list = <<>> THEN <<>> ELSE Head(list) \o Join(Tail(list))

\* s.replace(old, new); an empty old stands before every character of s
\* and at its end
replace(s, old, new) ==
    With(<<s, old, new>>, LAMBDA a :
        IF a[2] = <<>>
        THEN a[3] \o Join([i \in DOMAIN a[1] |-> <<a[1][i]>> \o a[3]])
        ELSE ReplaceFrom(a[1], 1, a[2], a[3]))

\* the special key %(chars)
Key(chars) == Str(<<"%", "(">>) \o Str(chars) \o Str(<<")">>)

KeyNames ==
    << <<"d", "a", "t", "e">>, <<"y", "e", "a", "r">>, <<"y", "r">>,
       <<"m", "o", "n", "t", "h">>, <<"d", "a", "y">>, <<"t", "i", "m", "e">>,
       <<"h", "o", "u", "r">>, <<"m", "i", "n">>, <<"s", "e", "c">> >>

\* %(count)
CountKey == Key(<<"c", "o", "u", "n", "t">>)

\* codes of get_name: the special keys and the format of strftime each
\* stands for, in the order of the dictionary
NameCodes ==
    LET formats == <<"%Y%m%d", "%Y", "%y", "%m", "%d", "%H%M%S", "%H", "%M", "%S">>
    IN  [k \in DOMAIN KeyNames |-> [key |-> Key(KeyNames[k]), val |-> formats[k]]]

\* time.strftime(val)
Strftime(val, time) ==
    CASE val = "%Y%m%d" -> Fmt(time.year, 4) \o Fmt(time.month, 2) \o Fmt(time.day, 2)
      [] val = "%Y"     -> Fmt(time.year, 4)
      [] val = "%y"     -> Fmt(time.year % 100, 2)
      [] val = "%m"     -> Fmt(time.month, 2)
      [] val = "%d"     -> Fmt(time.day, 2)
      [] val = "%H%M%S" -> Fmt(time.hour, 2) \o Fmt(time.min, 2) \o Fmt(time.sec, 2)
      [] val = "%H"     -> Fmt(time.hour, 2)
      [] val = "%M"     -> Fmt(time.min, 2)
      [] val = "%S"     -> Fmt(time.sec, 2)

\* naming formats of the model
Formats ==
    { Str(<<"c", "_">>) \o CountKey,
      Key(<<"d", "a", "t", "e">>) \o CountKey,
      Str(<<"c">>) \o CountKey \o Str(<<".">>) \o Key(<<"h", "o", "u", "r">>),
      Str(<<"c", "_">>) \o Key(<<"y", "r">>) \o Str(<<"_">>)
          \o Key(<<"t", "i", "m", "e">>) }

\* naming formats with characters that __init__ leaves as they are although
\* they are operators of regular expressions: a ? after a character, a ?
\* at the start, two of them in a row, a backslash, and %(count) twice
NameFormats ==
    Formats \cup { Str(<<"c", "?">>) \o CountKey,
                   Str(<<"?">>) \o CountKey,
                   Str(<<"c", "?", "?">>) \o CountKey,
                   Str(<<"c", "\\", "d">>),
                   CountKey \o Str(<<"_">>) \o CountKey }

\* the special key %(chars) once its parentheses are in brackets
EscapedKey(chars) ==
    Str(<<"%", "[", "(", "]">>) \o Str(chars) \o Str(<<"[", ")", "]">>)

\* codes of __init__: the special keys and the number of digits of each, in
\* the order of the dictionary
ReCodes ==
    LET digits == <<8, 4, 2, 2, 2, 6, 2, 2, 2>>
    IN  [k \in DOMAIN KeyNames |->
            [key |-> EscapedKey(KeyNames[k]), digits |-> digits[k]]]

\* format_re[i] of __init__ for the character char: [char] for a character
\* of the first list, \char for one of the second, char for every other
\* character, a ? and a backslash among them
EscapeChar(char) ==
    IF char \in Chars({"{", "(", "+", "*", "|", ".", "$", ")", "}"})
    THEN <<Ord("["), char, Ord("]")>>
    ELSE IF char \in Chars({"^", "[", "]"}) THEN <<Ord("\\"), char>>
    ELSE <<char>>

\* for key, digits in codes.items(): format_re.replace(key, '[0-9]{digits}'),
\* from the k-th key on
RECURSIVE ReplaceDigits(_, _)
ReplaceDigits(s, k) ==
    IF k > Len(ReCodes) THEN s
    ELSE ReplaceDigits(replace(s, ReCodes[k].key,
                               Str(<<"[", "0", "-", "9", "]", "{">>)
                                   \o DigitsOf(ReCodes[k].digits) \o Str(<<"}">>)),
                       k + 1)

\* naming_format_re as __init__ builds it from naming_format
format_re(format) ==
    replace(ReplaceDigits(Join([i \in DOMAIN format |-> EscapeChar(format[i])]), 1),
            EscapedKey(<<"c", "o", "u", "n", "t">>),
            Str(<<"(", "?", "P", "<", "i", "n", "d", "e", "x", ">",
                  "[", "0", "-", "9", "]", "{", "3", "}", ")">>))

(***************************************************************************)
(* re.match(naming_format_re, entry) as Python 3.11 has it.  The pattern   *)
(* is parsed as the module re parses it and matched by trying the          *)
(* alternatives in the order re tries them.  Of the syntax of re the       *)
(* parser leaves out what no pattern of __init__ holds: a ( is only        *)
(* followed by ? in the group index.                                       *)
(***************************************************************************)
OCTDIGITS == Chars({"0", "1", "2", "3", "4", "5", "6", "7"})
HEXDIGITS ==
    DIGITS \cup Chars({"a", "b", "c", "d", "e", "f", "A", "B", "C", "D", "E", "F"})
ASCIILETTERS ==
    { Ord(AsciiChars[i]) : i \in 34..59 } \cup { Ord(AsciiLower[i]) : i \in 1..26 }
SPECIAL_CHARS == Chars({".", "\\", "[", "{", "(", ")", "*", "+", "?", "^", "$", "|"})
REPEAT_CHARS == Chars({"*", "+", "?", "{"})
MAXREPEAT == -1

\* int(c, 16)
HexVal(c) ==
    IF c \in DIGITS THEN DigitVal(c)
    ELSE IF c >= Ord("a") THEN c - Ord("a") + 10
    ELSE c - Ord("A") + 10

\* int(s, base)
RECURSIVE BaseVal(_, _)
BaseVal(s, base) ==
    IF s = <<>> THEN 0
    ELSE base * BaseVal(SubSeq(s, 1, Len(s) - 1), base) + HexVal(s[Len(s)])

\* source.getwhile(n, charset) with the source at position i of P
RECURSIVE getwhile(_, _, _, _)
getwhile(P, i, n, charset) ==
    IF n = 0 \/ i > Len(P) \/ P[i] \notin charset THEN <<>>
    ELSE <<P[i]>> \o getwhile(P, i + 1, n - 1, charset)

\* the nodes of a parsed pattern
Literal(code) == [t |-> "lit", code |-> code]
SetItem(k, lo, hi, cat) == [k |-> k, lo |-> lo, hi |-> hi, cat |-> cat]
In(items, negate) == [t |-> "in", items |-> items, negate |-> negate]
At(where) == [t |-> "at", where |-> where]

\* the state of a parse: the number of groups opened, the number of the
\* group index (0 while there is none) and the groups closed
NoGroups == [groups |-> 0, named |-> 0, closed |-> {}]
Fail == [err |-> TRUE, node |-> [t |-> "none"], i |-> 0, st |-> NoGroups]
Got(node, i, st) == [err |-> FALSE, node |-> node, i |-> i, st |-> st]

\* ESCAPES: \a \b \f \n \r \t \v \\
ESCAPES ==
    (Ord("a") :> 7) @@ (Ord("b") :> 8) @@ (Ord("f") :> 12) @@ (Ord("n") :> 10)
        @@ (Ord("r") :> 13) @@ (Ord("t") :> 9) @@ (Ord("v") :> 11)
        @@ (Ord("\\") :> 92)

\* CATEGORIES: \A \b \B \Z and \d \D \s \S \w \W
CATEGORIES ==
    (Ord("A") :> At("beginning_string")) @@ (Ord("b") :> At("boundary"))
        @@ (Ord("B") :> At("non_boundary")) @@ (Ord("Z") :> At("end_string"))
        @@ (Ord("d") :> In(<<SetItem("cat", 0, 0, "digit")>>, FALSE))
        @@ (Ord("D") :> In(<<SetItem("cat", 0, 0, "not_digit")>>, FALSE))
        @@ (Ord("s") :> In(<<SetItem("cat", 0, 0, "space")>>, FALSE))
        @@ (Ord("S") :> In(<<SetItem("cat", 0, 0, "not_space")>>, FALSE))
        @@ (Ord("w") :> In(<<SetItem("cat", 0, 0, "word")>>, FALSE))
        @@ (Ord("W") :> In(<<SetItem("cat", 0, 0, "not_word")>>, FALSE))

\* the escapes \x, \u, \U and \N that _escape and _class_escape share
NumericEscape(P, i, st) ==
    LET c == P[i + 1]
        n == CASE c = Ord("x") -> 2 [] c = Ord("u") -> 4 [] c = Ord("U") -> 8
               [] OTHER -> 0
        h == getwhile(P, i + 2, n, HEXDIGITS)
    IN  IF c = Ord("N") \/ Len(h) # n \/ BaseVal(h, 16) > 1114111 THEN Fail
        ELSE Got(Literal(BaseVal(h, 16)), i + 2 + n, st)

\* _escape: the escape that starts with the backslash at position i
escape(P, i, st) ==
    IF i = Len(P) THEN Fail
    ELSE LET c == P[i + 1]
         IN  IF c \in DOMAIN CATEGORIES THEN Got(CATEGORIES[c], i + 2, st)
             ELSE IF c \in DOMAIN ESCAPES THEN Got(Literal(ESCAPES[c]), i + 2, st)
             ELSE IF c \in Chars({"x", "u", "U", "N"}) THEN NumericEscape(P, i, st)
             ELSE IF c = Zero
             THEN LET o == getwhile(P, i + 2, 2, OCTDIGITS)
                  IN  Got(Literal(BaseVal(o, 8)), i + 2 + Len(o), st)
             ELSE IF c \in DIGITS
             THEN LET two == i + 2 <= Len(P) /\ P[i + 2] \in DIGITS
                      three == /\ two
                               /\ c \in OCTDIGITS
                               /\ P[i + 2] \in OCTDIGITS
                               /\ i + 3 <= Len(P)
                               /\ P[i + 3] \in OCTDIGITS
                      digs == IF two THEN <<c, P[i + 2]>> ELSE <<c>>
                      group == ParseInt(digs)
                  IN  IF three
                      THEN IF BaseVal(<<c, P[i + 2], P[i + 3]>>, 8) > 255 THEN Fail
                           ELSE Got(Literal(BaseVal(<<c, P[i + 2], P[i + 3]>>, 8)),
                                    i + 4, st)
                      ELSE IF group <= st.groups /\ group \in st.closed
                      THEN Got([t |-> "ref", idx |-> group], i + 1 + Len(digs), st)
                      ELSE Fail
             ELSE IF c \in ASCIILETTERS THEN Fail
             ELSE Got(Literal(c), i + 2, st)

\* _class_escape: the same inside a character set; gives an item of the set
class_escape(P, i) ==
    IF i = Len(P) THEN [err |-> TRUE, item |-> SetItem("lit", 0, 0, ""), i |-> 0]
    ELSE LET c == P[i + 1]
             lit(code, j) ==
                 [err |-> FALSE, item |-> SetItem("lit", code, code, ""), i |-> j]
             bad == [err |-> TRUE, item |-> SetItem("lit", 0, 0, ""), i |-> 0]
         IN  IF c \in DOMAIN ESCAPES THEN lit(ESCAPES[c], i + 2)
             ELSE IF c \in DOMAIN CATEGORIES /\ CATEGORIES[c].t = "in"
             THEN [err |-> FALSE, item |-> CATEGORIES[c].items[1], i |-> i + 2]
             ELSE IF c \in Chars({"x", "u", "U", "N"})
             THEN LET e == NumericEscape(P, i, NoGroups)
                  IN  IF e.err THEN bad ELSE lit(e.node.code, e.i)
             ELSE IF c \in OCTDIGITS
             THEN LET o == <<c>> \o getwhile(P, i + 2, 2, OCTDIGITS)
                  IN  IF BaseVal(o, 8) > 255 THEN bad
                      ELSE lit(BaseVal(o, 8), i + 1 + Len(o))
             ELSE IF c \in DIGITS \/ c \in ASCIILETTERS THEN bad
             ELSE lit(c, i + 2)

\* the character set that starts after the [ and the ^: its items up to
\* the closing ]
RECURSIVE ParseSet(_, _, _)
ParseSet(P, j0, set0) ==
    With(<<j0, set0>>, LAMBDA a :
    LET j == a[1]
        set == a[2]
        bad == [err |-> TRUE, items |-> <<>>, i |-> 0]
        literal(k) == [err |-> FALSE, item |-> SetItem("lit", P[k], P[k], ""),
                       i |-> k + 1]
    IN  IF j > Len(P) THEN bad
        ELSE IF P[j] = Ord("]") /\ set # <<>>
        THEN [err |-> FALSE, items |-> set, i |-> j + 1]
        ELSE With(IF P[j] = Ord("\\") THEN class_escape(P, j) ELSE literal(j),
                  LAMBDA code1 :
             IF code1.err THEN bad
             ELSE IF code1.i <= Len(P) /\ P[code1.i] = Ord("-")
             THEN IF code1.i + 1 > Len(P) THEN bad
                  ELSE IF P[code1.i + 1] = Ord("]")
                  THEN [err |-> FALSE,
                        items |-> set \o <<code1.item,
                                           SetItem("lit", Ord("-"), Ord("-"), "")>>,
                        i |-> code1.i + 2]
                  ELSE With(IF P[code1.i + 1] = Ord("\\")
                            THEN class_escape(P, code1.i + 1)
                            ELSE literal(code1.i + 1), LAMBDA code2 :
                       IF \/ code2.err
                          \/ code1.item.k # "lit"
                          \/ code2.item.k # "lit"
                          \/ code2.item.lo < code1.item.lo
                       THEN bad
                       ELSE ParseSet(P, code2.i,
                                     Append(set, SetItem("range", code1.item.lo,
                                                         code2.item.lo, ""))))
             ELSE ParseSet(P, code1.i, Append(set, code1.item))))

\* the repeat that starts at position i: its bounds and the position after
\* it; lit when the { there is no repeat and stands for itself
Repeat(P, i) ==
    LET q(min, max, j) == [lit |-> FALSE, min |-> min, max |-> max, i |-> j]
        lo == getwhile(P, i + 1, Len(P), DIGITS)
        j == i + 1 + Len(lo)
        comma == j <= Len(P) /\ P[j] = Ord(",")
        hi == IF comma THEN getwhile(P, j + 1, Len(P), DIGITS) ELSE lo
        k == IF comma THEN j + 1 + Len(hi) ELSE j
    IN  CASE P[i] = Ord("?") -> q(0, 1, i + 1)
          [] P[i] = Ord("*") -> q(0, MAXREPEAT, i + 1)
          [] P[i] = Ord("+") -> q(1, MAXREPEAT, i + 1)
          [] OTHER ->
               IF \/ i + 1 <= Len(P) /\ P[i + 1] = Ord("}")
                  \/ ~(k <= Len(P) /\ P[k] = Ord("}"))
               THEN [lit |-> TRUE, min |-> 0, max |-> 0, i |-> i + 1]
               ELSE q(IF lo = <<>> THEN 0 ELSE ParseInt(lo),
                      IF hi = <<>> THEN MAXREPEAT ELSE ParseInt(hi), k + 1)

IndexGroup == Str(<<"?", "P", "<", "i", "n", "d", "e", "x", ">">>)

\* _parse_sub and _parse: the alternatives that start at position i, and
\* one of them as the sequence acc of the items parsed so far
RECURSIVE parse_sub(_, _, _)
RECURSIVE parse(_, _, _, _)
parse_sub(P, i, st) ==
    With(parse(P, i, st, <<>>), LAMBDA a :
        IF a.err THEN Fail
        ELSE IF a.i <= Len(P) /\ P[a.i] = Ord("|")
        THEN With(parse_sub(P, a.i + 1, a.st), LAMBDA b :
                 IF b.err THEN Fail
                 ELSE Got([t |-> "branch", a |-> a.node, b |-> b.node], b.i, b.st))
        ELSE a)

parse(P, i0, st0, acc0) ==
    With(<<i0, st0, acc0>>, LAMBDA a :
    LET i == a[1]
        st == a[2]
        acc == a[3]
    IN  IF i > Len(P) \/ P[i] \in Chars({"|", ")"})
        THEN Got([t |-> "seq", items |-> acc], i, st)
        ELSE LET this == P[i]
             IN  IF this = Ord("\\")
                 THEN With(escape(P, i, st), LAMBDA code :
                          IF code.err THEN Fail
                          ELSE parse(P, code.i, st, Append(acc, code.node)))
                 ELSE IF this \notin SPECIAL_CHARS
                 THEN parse(P, i + 1, st, Append(acc, Literal(this)))
                 ELSE IF this = Ord("[")
                 THEN LET negate == i + 1 <= Len(P) /\ P[i + 1] = Ord("^")
                      IN  With(ParseSet(P, IF negate THEN i + 2 ELSE i + 1, <<>>),
                               LAMBDA set :
                              IF set.err THEN Fail
                              ELSE parse(P, set.i, st, Append(acc, In(set.items, negate))))
                 ELSE IF this \in REPEAT_CHARS
                 THEN With(Repeat(P, i), LAMBDA r :
                      LET minimal == r.i <= Len(P) /\ P[r.i] = Ord("?")
                          possessive == r.i <= Len(P) /\ P[r.i] = Ord("+")
                      IN  IF r.lit THEN parse(P, i + 1, st, Append(acc, Literal(this)))
                          ELSE IF r.max # MAXREPEAT /\ r.max < r.min THEN Fail
                          ELSE IF acc = <<>> THEN Fail
                          ELSE IF acc[Len(acc)].t \in {"at", "repeat"} THEN Fail
                          ELSE parse(P, IF minimal \/ possessive THEN r.i + 1 ELSE r.i, st,
                                     [acc EXCEPT ![Len(acc)] =
                                         [t |-> "repeat", min |-> r.min, max |-> r.max,
                                          mode |-> IF minimal THEN "min"
                                                   ELSE IF possessive THEN "possessive"
                                                   ELSE "max",
                                          item |-> @]]))
                 ELSE IF this = Ord(".") THEN parse(P, i + 1, st, Append(acc, [t |-> "any"]))
                 ELSE IF this = Ord("(")
                 THEN LET named == /\ i + Len(IndexGroup) <= Len(P)
                                   /\ SubSeq(P, i + 1, i + Len(IndexGroup)) = IndexGroup
                          group == st.groups + 1
                      IN  IF named /\ st.named # 0 THEN Fail
                          ELSE IF ~named /\ i + 1 <= Len(P) /\ P[i + 1] = Ord("?") THEN Fail
                          ELSE With(parse_sub(P, IF named THEN i + 1 + Len(IndexGroup)
                                                 ELSE i + 1,
                                              [st EXCEPT !.groups = group,
                                                         !.named = IF named THEN group ELSE @]),
                                    LAMBDA p :
                               IF p.err \/ p.i > Len(P) THEN Fail
                               ELSE IF P[p.i] # Ord(")") THEN Fail
                               ELSE parse(P, p.i + 1, [p.st EXCEPT !.closed = @ \cup {group}],
                                          Append(acc, [t |-> "subpattern", group |-> group,
                                                       p |-> p.node])))
                 ELSE IF this = Ord("^") THEN parse(P, i + 1, st, Append(acc, At("beginning")))
                 ELSE IF this = Ord("$") THEN parse(P, i + 1, st, Append(acc, At("end")))
                 ELSE Fail)

\* re.compile(P): the parsed pattern, or an error
compile(P) ==
    With(parse_sub(P, 1, NoGroups), LAMBDA p :
        IF p.err \/ p.i <= Len(P)
        THEN [error |-> TRUE, node |-> [t |-> "none"], groups |-> 0, index |-> 0]
        ELSE [error |-> FALSE, node |-> p.node, groups |-> p.st.groups,
              index |-> p.st.named])

\* the ranges of the code points c with Py_UNICODE_ISALNUM(c), Unicode 14.0.0
UnicodeAlnum ==
    { <<48, 57>>, <<65, 90>>, <<97, 122>>, <<170, 170>>, <<178, 179>>,
      <<181, 181>>, <<185, 186>>, <<188, 190>>, <<192, 214>>, <<216, 246>>,
      <<248, 705>>, <<710, 721>>, <<736, 740>>, <<748, 748>>, <<750, 750>>,
      <<880, 884>>, <<886, 887>>, <<890, 893>>, <<895, 895>>, <<902, 902>>,
      <<904, 906>>, <<908, 908>>, <<910, 929>>, <<931, 1013>>,
      <<1015, 1153>>, <<1162, 1327>>, <<1329, 1366>>, <<1369, 1369>>,
      <<1376, 1416>>, <<1488, 1514>>, <<1519, 1522>>, <<1568, 1610>>,
      <<1632, 1641>>, <<1646, 1647>>, <<1649, 1747>>, <<1749, 1749>>,
      <<1765, 1766>>, <<1774, 1788>>, <<1791, 1791>>, <<1808, 1808>>,
      <<1810, 1839>>, <<1869, 1957>>, <<1969, 1969>>, <<1984, 2026>>,
      <<2036, 2037>>, <<2042, 2042>>, <<2048, 2069>>, <<2074, 2074>>,
      <<2084, 2084>>, <<2088, 2088>>, <<2112, 2136>>, <<2144, 2154>>,
      <<2160, 2183>>, <<2185, 2190>>, <<2208, 2249>>, <<2308, 2361>>,
      <<2365, 2365>>, <<2384, 2384>>, <<2392, 2401>>, <<2406, 2415>>,
      <<2417, 2432>>, <<2437, 2444>>, <<2447, 2448>>, <<2451, 2472>>,
      <<2474, 2480>>, <<2482, 2482>>, <<2486, 2489>>, <<2493, 2493>>,
      <<2510, 2510>>, <<2524, 2525>>, <<2527, 2529>>, <<2534, 2545>>,
      <<2548, 2553>>, <<2556, 2556>>, <<2565, 2570>>, <<2575, 2576>>,
      <<2579, 2600>>, <<2602, 2608>>, <<2610, 2611>>, <<2613, 2614>>,
      <<2616, 2617>>, <<2649, 2652>>, <<2654, 2654>>, <<2662, 2671>>,
      <<2674, 2676>>, <<2693, 2701>>, <<2703, 2705>>, <<2707, 2728>>,
      <<2730, 2736>>, <<2738, 2739>>, <<2741, 2745>>, <<2749, 2749>>,
      <<2768, 2768>>, <<2784, 2785>>, <<2790, 2799>>, <<2809, 2809>>,
      <<2821, 2828>>, <<2831, 2832>>, <<2835, 2856>>, <<2858, 2864>>,
      <<2866, 2867>>, <<2869, 2873>>, <<2877, 2877>>, <<2908, 2909>>,
      <<2911, 2913>>, <<2918, 2927>>, <<2929, 2935>>, <<2947, 2947>>,
      <<2949, 2954>>, <<2958, 2960>>, <<2962, 2965>>, <<2969, 2970>>,
      <<2972, 2972>>, <<2974, 2975>>, <<2979, 2980>>, <<2984, 2986>>,
      <<2990, 3001>>, <<3024, 3024>>, <<3046, 3058>>, <<3077, 3084>>,
      <<3086, 3088>>, <<3090, 3112>>, <<3114, 3129>>, <<3133, 3133>>,
      <<3160, 3162>>, <<3165, 3165>>, <<3168, 3169>>, <<3174, 3183>>,
      <<3192, 3198>>, <<3200, 3200>>, <<3205, 3212>>, <<3214, 3216>>,
      <<3218, 3240>>, <<3242, 3251>>, <<3253, 3257>>, <<3261, 3261>>,
      <<3293, 3294>>, <<3296, 3297>>, <<3302, 3311>>, <<3313, 3314>>,
      <<3332, 3340>>, <<3342, 3344>>, <<3346, 3386>>, <<3389, 3389>>,
      <<3406, 3406>>, <<3412, 3414>>, <<3416, 3425>>, <<3430, 3448>>,
      <<3450, 3455>>, <<3461, 3478>>, <<3482, 3505>>, <<3507, 3515>>,
      <<3517, 3517>>, <<3520, 3526>>, <<3558, 3567>>, <<3585, 3632>>,
      <<3634, 3635>>, <<3648, 3654>>, <<3664, 3673>>, <<3713, 3714>>,
      <<3716, 3716>>, <<3718, 3722>>, <<3724, 3747>>, <<3749, 3749>>,
      <<3751, 3760>>, <<3762, 3763>>, <<3773, 3773>>, <<3776, 3780>>,
      <<3782, 3782>>, <<3792, 3801>>, <<3804, 3807>>, <<3840, 3840>>,
      <<3872, 3891>>, <<3904, 3911>>, <<3913, 3948>>, <<3976, 3980>>,
      <<4096, 4138>>, <<4159, 4169>>, <<4176, 4181>>, <<4186, 4189>>,
      <<4193, 4193>>, <<4197, 4198>>, <<4206, 4208>>, <<4213, 4225>>,
      <<4238, 4238>>, <<4240, 4249>>, <<4256, 4293>>, <<4295, 4295>>,
      <<4301, 4301>>, <<4304, 4346>>, <<4348, 4680>>, <<4682, 4685>>,
      <<4688, 4694>>, <<4696, 4696>>, <<4698, 4701>>, <<4704, 4744>>,
      <<4746, 4749>>, <<4752, 4784>>, <<4786, 4789>>, <<4792, 4798>>,
      <<4800, 4800>>, <<4802, 4805>>, <<4808, 4822>>, <<4824, 4880>>,
      <<4882, 4885>>, <<4888, 4954>>, <<4969, 4988>>, <<4992, 5007>>,
      <<5024, 5109>>, <<5112, 5117>>, <<5121, 5740>>, <<5743, 5759>>,
      <<5761, 5786>>, <<5792, 5866>>, <<5870, 5880>>, <<5888, 5905>>,
      <<5919, 5937>>, <<5952, 5969>>, <<5984, 5996>>, <<5998, 6000>>,
      <<6016, 6067>>, <<6103, 6103>>, <<6108, 6108>>, <<6112, 6121>>,
      <<6128, 6137>>, <<6160, 6169>>, <<6176, 6264>>, <<6272, 6276>>,
      <<6279, 6312>>, <<6314, 6314>>, <<6320, 6389>>, <<6400, 6430>>,
      <<6470, 6509>>, <<6512, 6516>>, <<6528, 6571>>, <<6576, 6601>>,
      <<6608, 6618>>, <<6656, 6678>>, <<6688, 6740>>, <<6784, 6793>>,
      <<6800, 6809>>, <<6823, 6823>>, <<6917, 6963>>, <<6981, 6988>>,
      <<6992, 7001>>, <<7043, 7072>>, <<7086, 7141>>, <<7168, 7203>>,
      <<7232, 7241>>, <<7245, 7293>>, <<7296, 7304>>, <<7312, 7354>>,
      <<7357, 7359>>, <<7401, 7404>>, <<7406, 7411>>, <<7413, 7414>>,
      <<7418, 7418>>, <<7424, 7615>>, <<7680, 7957>>, <<7960, 7965>>,
      <<7968, 8005>>, <<8008, 8013>>, <<8016, 8023>>, <<8025, 8025>>,
      <<8027, 8027>>, <<8029, 8029>>, <<8031, 8061>>, <<8064, 8116>>,
      <<8118, 8124>>, <<8126, 8126>>, <<8130, 8132>>, <<8134, 8140>>,
      <<8144, 8147>>, <<8150, 8155>>, <<8160, 8172>>, <<8178, 8180>>,
      <<8182, 8188>>, <<8304, 8305>>, <<8308, 8313>>, <<8319, 8329>>,
      <<8336, 8348>>, <<8450, 8450>>, <<8455, 8455>>, <<8458, 8467>>,
      <<8469, 8469>>, <<8473, 8477>>, <<8484, 8484>>, <<8486, 8486>>,
      <<8488, 8488>>, <<8490, 8493>>, <<8495, 8505>>, <<8508, 8511>>,
      <<8517, 8521>>, <<8526, 8526>>, <<8528, 8585>>, <<9312, 9371>>,
      <<9450, 9471>>, <<10102, 10131>>, <<11264, 11492>>, <<11499, 11502>>,
      <<11506, 11507>>, <<11517, 11517>>, <<11520, 11557>>, <<11559, 11559>>,
      <<11565, 11565>>, <<11568, 11623>>, <<11631, 11631>>, <<11648, 11670>>,
      <<11680, 11686>>, <<11688, 11694>>, <<11696, 11702>>, <<11704, 11710>>,
      <<11712, 11718>>, <<11720, 11726>>, <<11728, 11734>>, <<11736, 11742>>,
      <<11823, 11823>>, <<12293, 12295>>, <<12321, 12329>>, <<12337, 12341>>,
      <<12344, 12348>>, <<12353, 12438>>, <<12445, 12447>>, <<12449, 12538>>,
      <<12540, 12543>>, <<12549, 12591>>, <<12593, 12686>>, <<12690, 12693>>,
      <<12704, 12735>>, <<12784, 12799>>, <<12832, 12841>>, <<12872, 12879>>,
      <<12881, 12895>>, <<12928, 12937>>, <<12977, 12991>>, <<13312, 19903>>,
      <<19968, 42124>>, <<42192, 42237>>, <<42240, 42508>>, <<42512, 42539>>,
      <<42560, 42606>>, <<42623, 42653>>, <<42656, 42735>>, <<42775, 42783>>,
      <<42786, 42888>>, <<42891, 42954>>, <<42960, 42961>>, <<42963, 42963>>,
      <<42965, 42969>>, <<42994, 43009>>, <<43011, 43013>>, <<43015, 43018>>,
      <<43020, 43042>>, <<43056, 43061>>, <<43072, 43123>>, <<43138, 43187>>,
      <<43216, 43225>>, <<43250, 43255>>, <<43259, 43259>>, <<43261, 43262>>,
      <<43264, 43301>>, <<43312, 43334>>, <<43360, 43388>>, <<43396, 43442>>,
      <<43471, 43481>>, <<43488, 43492>>, <<43494, 43518>>, <<43520, 43560>>,
      <<43584, 43586>>, <<43588, 43595>>, <<43600, 43609>>, <<43616, 43638>>,
      <<43642, 43642>>, <<43646, 43695>>, <<43697, 43697>>, <<43701, 43702>>,
      <<43705, 43709>>, <<43712, 43712>>, <<43714, 43714>>, <<43739, 43741>>,
      <<43744, 43754>>, <<43762, 43764>>, <<43777, 43782>>, <<43785, 43790>>,
      <<43793, 43798>>, <<43808, 43814>>, <<43816, 43822>>, <<43824, 43866>>,
      <<43868, 43881>>, <<43888, 44002>>, <<44016, 44025>>, <<44032, 55203>>,
      <<55216, 55238>>, <<55243, 55291>>, <<63744, 64109>>, <<64112, 64217>>,
      <<64256, 64262>>, <<64275, 64279>>, <<64285, 64285>>, <<64287, 64296>>,
      <<64298, 64310>>, <<64312, 64316>>, <<64318, 64318>>, <<64320, 64321>>,
      <<64323, 64324>>, <<64326, 64433>>, <<64467, 64829>>, <<64848, 64911>>,
      <<64914, 64967>>, <<65008, 65019>>, <<65136, 65140>>, <<65142, 65276>>,
      <<65296, 65305>>, <<65313, 65338>>, <<65345, 65370>>, <<65382, 65470>>,
      <<65474, 65479>>, <<65482, 65487>>, <<65490, 65495>>, <<65498, 65500>>,
      <<65536, 65547>>, <<65549, 65574>>, <<65576, 65594>>, <<65596, 65597>>,
      <<65599, 65613>>, <<65616, 65629>>, <<65664, 65786>>, <<65799, 65843>>,
      <<65856, 65912>>, <<65930, 65931>>, <<66176, 66204>>, <<66208, 66256>>,
      <<66273, 66299>>, <<66304, 66339>>, <<66349, 66378>>, <<66384, 66421>>,
      <<66432, 66461>>, <<66464, 66499>>, <<66504, 66511>>, <<66513, 66517>>,
      <<66560, 66717>>, <<66720, 66729>>, <<66736, 66771>>, <<66776, 66811>>,
      <<66816, 66855>>, <<66864, 66915>>, <<66928, 66938>>, <<66940, 66954>>,
      <<66956, 66962>>, <<66964, 66965>>, <<66967, 66977>>, <<66979, 66993>>,
      <<66995, 67001>>, <<67003, 67004>>, <<67072, 67382>>, <<67392, 67413>>,
      <<67424, 67431>>, <<67456, 67461>>, <<67463, 67504>>, <<67506, 67514>>,
      <<67584, 67589>>, <<67592, 67592>>, <<67594, 67637>>, <<67639, 67640>>,
      <<67644, 67644>>, <<67647, 67669>>, <<67672, 67702>>, <<67705, 67742>>,
      <<67751, 67759>>, <<67808, 67826>>, <<67828, 67829>>, <<67835, 67867>>,
      <<67872, 67897>>, <<67968, 68023>>, <<68028, 68047>>, <<68050, 68096>>,
      <<68112, 68115>>, <<68117, 68119>>, <<68121, 68149>>, <<68160, 68168>>,
      <<68192, 68222>>, <<68224, 68255>>, <<68288, 68295>>, <<68297, 68324>>,
      <<68331, 68335>>, <<68352, 68405>>, <<68416, 68437>>, <<68440, 68466>>,
      <<68472, 68497>>, <<68521, 68527>>, <<68608, 68680>>, <<68736, 68786>>,
      <<68800, 68850>>, <<68858, 68899>>, <<68912, 68921>>, <<69216, 69246>>,
      <<69248, 69289>>, <<69296, 69297>>, <<69376, 69415>>, <<69424, 69445>>,
      <<69457, 69460>>, <<69488, 69505>>, <<69552, 69579>>, <<69600, 69622>>,
      <<69635, 69687>>, <<69714, 69743>>, <<69745, 69746>>, <<69749, 69749>>,
      <<69763, 69807>>, <<69840, 69864>>, <<69872, 69881>>, <<69891, 69926>>,
      <<69942, 69951>>, <<69956, 69956>>, <<69959, 69959>>, <<69968, 70002>>,
      <<70006, 70006>>, <<70019, 70066>>, <<70081, 70084>>, <<70096, 70106>>,
      <<70108, 70108>>, <<70113, 70132>>, <<70144, 70161>>, <<70163, 70187>>,
      <<70272, 70278>>, <<70280, 70280>>, <<70282, 70285>>, <<70287, 70301>>,
      <<70303, 70312>>, <<70320, 70366>>, <<70384, 70393>>, <<70405, 70412>>,
      <<70415, 70416>>, <<70419, 70440>>, <<70442, 70448>>, <<70450, 70451>>,
      <<70453, 70457>>, <<70461, 70461>>, <<70480, 70480>>, <<70493, 70497>>,
      <<70656, 70708>>, <<70727, 70730>>, <<70736, 70745>>, <<70751, 70753>>,
      <<70784, 70831>>, <<70852, 70853>>, <<70855, 70855>>, <<70864, 70873>>,
      <<71040, 71086>>, <<71128, 71131>>, <<71168, 71215>>, <<71236, 71236>>,
      <<71248, 71257>>, <<71296, 71338>>, <<71352, 71352>>, <<71360, 71369>>,
      <<71424, 71450>>, <<71472, 71483>>, <<71488, 71494>>, <<71680, 71723>>,
      <<71840, 71922>>, <<71935, 71942>>, <<71945, 71945>>, <<71948, 71955>>,
      <<71957, 71958>>, <<71960, 71983>>, <<71999, 71999>>, <<72001, 72001>>,
      <<72016, 72025>>, <<72096, 72103>>, <<72106, 72144>>, <<72161, 72161>>,
      <<72163, 72163>>, <<72192, 72192>>, <<72203, 72242>>, <<72250, 72250>>,
      <<72272, 72272>>, <<72284, 72329>>, <<72349, 72349>>, <<72368, 72440>>,
      <<72704, 72712>>, <<72714, 72750>>, <<72768, 72768>>, <<72784, 72812>>,
      <<72818, 72847>>, <<72960, 72966>>, <<72968, 72969>>, <<72971, 73008>>,
      <<73030, 73030>>, <<73040, 73049>>, <<73056, 73061>>, <<73063, 73064>>,
      <<73066, 73097>>, <<73112, 73112>>, <<73120, 73129>>, <<73440, 73458>>,
      <<73648, 73648>>, <<73664, 73684>>, <<73728, 74649>>, <<74752, 74862>>,
      <<74880, 75075>>, <<77712, 77808>>, <<77824, 78894>>, <<82944, 83526>>,
      <<92160, 92728>>, <<92736, 92766>>, <<92768, 92777>>, <<92784, 92862>>,
      <<92864, 92873>>, <<92880, 92909>>, <<92928, 92975>>, <<92992, 92995>>,
      <<93008, 93017>>, <<93019, 93025>>, <<93027, 93047>>, <<93053, 93071>>,
      <<93760, 93846>>, <<93952, 94026>>, <<94032, 94032>>, <<94099, 94111>>,
      <<94176, 94177>>, <<94179, 94179>>, <<94208, 100343>>,
      <<100352, 101589>>, <<101632, 101640>>, <<110576, 110579>>,
      <<110581, 110587>>, <<110589, 110590>>, <<110592, 110882>>,
      <<110928, 110930>>, <<110948, 110951>>, <<110960, 111355>>,
      <<113664, 113770>>, <<113776, 113788>>, <<113792, 113800>>,
      <<113808, 113817>>, <<119520, 119539>>, <<119648, 119672>>,
      <<119808, 119892>>, <<119894, 119964>>, <<119966, 119967>>,
      <<119970, 119970>>, <<119973, 119974>>, <<119977, 119980>>,
      <<119982, 119993>>, <<119995, 119995>>, <<119997, 120003>>,
      <<120005, 120069>>, <<120071, 120074>>, <<120077, 120084>>,
      <<120086, 120092>>, <<120094, 120121>>, <<120123, 120126>>,
      <<120128, 120132>>, <<120134, 120134>>, <<120138, 120144>>,
      <<120146, 120485>>, <<120488, 120512>>, <<120514, 120538>>,
      <<120540, 120570>>, <<120572, 120596>>, <<120598, 120628>>,
      <<120630, 120654>>, <<120656, 120686>>, <<120688, 120712>>,
      <<120714, 120744>>, <<120746, 120770>>, <<120772, 120779>>,
      <<120782, 120831>>, <<122624, 122654>>, <<123136, 123180>>,
      <<123191, 123197>>, <<123200, 123209>>, <<123214, 123214>>,
      <<123536, 123565>>, <<123584, 123627>>, <<123632, 123641>>,
      <<124896, 124902>>, <<124904, 124907>>, <<124909, 124910>>,
      <<124912, 124926>>, <<124928, 125124>>, <<125127, 125135>>,
      <<125184, 125251>>, <<125259, 125259>>, <<125264, 125273>>,
      <<126065, 126123>>, <<126125, 126127>>, <<126129, 126132>>,
      <<126209, 126253>>, <<126255, 126269>>, <<126464, 126467>>,
      <<126469, 126495>>, <<126497, 126498>>, <<126500, 126500>>,
      <<126503, 126503>>, <<126505, 126514>>, <<126516, 126519>>,
      <<126521, 126521>>, <<126523, 126523>>, <<126530, 126530>>,
      <<126535, 126535>>, <<126537, 126537>>, <<126539, 126539>>,
      <<126541, 126543>>, <<126545, 126546>>, <<126548, 126548>>,
      <<126551, 126551>>, <<126553, 126553>>, <<126555, 126555>>,
      <<126557, 126557>>, <<126559, 126559>>, <<126561, 126562>>,
      <<126564, 126564>>, <<126567, 126570>>, <<126572, 126578>>,
      <<126580, 126583>>, <<126585, 126588>>, <<126590, 126590>>,
      <<126592, 126601>>, <<126603, 126619>>, <<126625, 126627>>,
      <<126629, 126633>>, <<126635, 126651>>, <<127232, 127244>>,
      <<130032, 130041>>, <<131072, 173791>>, <<173824, 177976>>,
      <<177984, 178205>>, <<178208, 183969>>, <<183984, 191456>>,
      <<194560, 195101>>, <<196608, 201546>> }

\* the ranges of the code points c with Py_UNICODE_ISSPACE(c)
UnicodeSpace ==
    { <<9, 13>>, <<28, 32>>, <<133, 133>>, <<160, 160>>, <<5760, 5760>>,
      <<8192, 8202>>, <<8232, 8233>>, <<8239, 8239>>, <<8287, 8287>>,
      <<12288, 12288>> }

\* the ranges of the code points c with Py_UNICODE_ISDECIMAL(c)
UnicodeDecimal ==
    { <<48, 57>>, <<1632, 1641>>, <<1776, 1785>>, <<1984, 1993>>,
      <<2406, 2415>>, <<2534, 2543>>, <<2662, 2671>>, <<2790, 2799>>,
      <<2918, 2927>>, <<3046, 3055>>, <<3174, 3183>>, <<3302, 3311>>,
      <<3430, 3439>>, <<3558, 3567>>, <<3664, 3673>>, <<3792, 3801>>,
      <<3872, 3881>>, <<4160, 4169>>, <<4240, 4249>>, <<6112, 6121>>,
      <<6160, 6169>>, <<6470, 6479>>, <<6608, 6617>>, <<6784, 6793>>,
      <<6800, 6809>>, <<6992, 7001>>, <<7088, 7097>>, <<7232, 7241>>,
      <<7248, 7257>>, <<42528, 42537>>, <<43216, 43225>>, <<43264, 43273>>,
      <<43472, 43481>>, <<43504, 43513>>, <<43600, 43609>>, <<44016, 44025>>,
      <<65296, 65305>>, <<66720, 66729>>, <<68912, 68921>>, <<69734, 69743>>,
      <<69872, 69881>>, <<69942, 69951>>, <<70096, 70105>>, <<70384, 70393>>,
      <<70736, 70745>>, <<70864, 70873>>, <<71248, 71257>>, <<71360, 71369>>,
      <<71472, 71481>>, <<71904, 71913>>, <<72016, 72025>>, <<72784, 72793>>,
      <<73040, 73049>>, <<73120, 73129>>, <<92768, 92777>>, <<92864, 92873>>,
      <<93008, 93017>>, <<120782, 120831>>, <<123200, 123209>>,
      <<123632, 123641>>, <<125264, 125273>>, <<130032, 130041>> }

InRanges(c, ranges) == \E r \in ranges : r[1] <= c /\ c <= r[2]

\* SRE_UNI_IS_WORD, Py_UNICODE_ISSPACE and Py_UNICODE_ISDECIMAL: the
\* pattern is a str, so the categories are those of Unicode
IsWord(c) == InRanges(c, UnicodeAlnum) \/ c = Ord("_")
IsSpace(c) == InRanges(c, UnicodeSpace)
IsDecimal(c) == InRanges(c, UnicodeDecimal)

Category(cat, c) ==
    CASE cat = "digit" -> IsDecimal(c)
      [] cat = "not_digit" -> ~IsDecimal(c)
      [] cat = "space" -> IsSpace(c)
      [] cat = "not_space" -> ~IsSpace(c)
      [] cat = "word" -> IsWord(c)
      [] cat = "not_word" -> ~IsWord(c)

InSet(c, items) ==
    \E k \in DOMAIN items :
        CASE items[k].k = "cat" -> Category(items[k].cat, c)
          [] OTHER -> items[k].lo <= c /\ c <= items[k].hi

Newline == Ord("\n")

\* SRE(at): the assertions ^ \A $ \Z \b \B at the position pos of s; \b
\* and \B both fail on the empty string
AtHolds(where, s, pos) ==
    LET before == pos > 1 /\ IsWord(s[pos - 1])
        after == pos <= Len(s) /\ IsWord(s[pos])
    IN  CASE where \in {"beginning", "beginning_string"} -> pos = 1
          [] where = "end" ->
               pos = Len(s) + 1 \/ (pos = Len(s) /\ s[pos] = Newline)
          [] where = "end_string" -> pos = Len(s) + 1
          [] where = "boundary" -> s # <<>> /\ before # after
          [] where = "non_boundary" -> s # <<>> /\ before = after

\* whether the node, one that stands for one character, matches c
OneChar(node, c) ==
    CASE node.t = "lit" -> c = node.code
      [] node.t = "any" -> c # Newline
      [] node.t = "in" -> InSet(c, node.items) # node.negate
      [] OTHER -> FALSE

\* the number of characters of s from pos on, max at most, that the node
\* matches one after the other
Count(node, s, pos, max) ==
    LET limit == IF max = MAXREPEAT \/ pos + max - 1 > Len(s)
                 THEN Len(s) - pos + 1 ELSE max
        stops == { n \in 0..limit - 1 : ~OneChar(node, s[pos + n]) }
    IN  IF stops = {} THEN limit ELSE CHOOSE n \in stops : \A k \in stops : n <= k

Failure == [ok |-> FALSE, pos |-> 0, groups |-> <<>>, lastindex |-> 0]

\* the match of the nodes nodes, one after the other, on s from pos on, with
\* the text of the groups and the group closed last: the first match in
\* the order in which re tries the alternatives of a branch and the numbers
\* of repetitions of a repeat.  A mark closes a group, an until ends one
\* repetition of a repeat.
RECURSIVE sre_match(_, _, _, _, _)
RECURSIVE RepeatOne(_, _, _, _, _, _, _)
\* the match of the nodes rest after n characters of a repeat, or else
\* after the next number of characters that re tries, up to the number last
RepeatOne(rest, s, pos, groups, lastindex, n, last) ==
    IF n = last THEN sre_match(rest, s, pos + n, groups, lastindex)
    ELSE With(sre_match(rest, s, pos + n, groups, lastindex), LAMBDA r :
             IF r.ok THEN r
             ELSE RepeatOne(rest, s, pos, groups, lastindex,
                            IF n < last THEN n + 1 ELSE n - 1, last))

sre_match(nodes, s, pos, groups, lastindex) ==
    IF nodes = <<>>
    THEN [ok |-> TRUE, pos |-> pos, groups |-> groups, lastindex |-> lastindex]
    ELSE LET node == Head(nodes)
             rest == Tail(nodes)
         IN  CASE node.t \in {"lit", "any", "in"} ->
                    IF pos <= Len(s) /\ OneChar(node, s[pos])
                    THEN sre_match(rest, s, pos + 1, groups, lastindex)
                    ELSE Failure
               [] node.t = "at" ->
                    IF AtHolds(node.where, s, pos)
                    THEN sre_match(rest, s, pos, groups, lastindex)
                    ELSE Failure
               [] node.t = "seq" -> sre_match(node.items \o rest, s, pos, groups, lastindex)
               [] node.t = "branch" ->
                    With(sre_match(<<node.a>> \o rest, s, pos, groups, lastindex), LAMBDA r :
                        IF r.ok THEN r
                        ELSE sre_match(<<node.b>> \o rest, s, pos, groups, lastindex))
               [] node.t = "subpattern" ->
                    sre_match(<<node.p, [t |-> "mark", group |-> node.group, start |-> pos]>>
                                  \o rest, s, pos, groups, lastindex)
               [] node.t = "mark" ->
                    sre_match(rest, s, pos,
                              [groups EXCEPT ![node.group] = <<SubSeq(s, node.start, pos - 1)>>],
                              node.group)
               [] node.t = "ref" ->
                    LET g == groups[node.idx]
                        last == pos + Len(g[1]) - 1
                    IN  IF g # <<>> /\ last <= Len(s) /\ SubSeq(s, pos, last) = g[1]
                        THEN sre_match(rest, s, last + 1, groups, lastindex)
                        ELSE Failure
               [] node.t = "repeat" /\ node.mode = "possessive" ->
                    With(sre_match(<<[node EXCEPT !.mode = "max"]>>, s, pos, groups, lastindex),
                         LAMBDA r :
                             IF r.ok THEN sre_match(rest, s, r.pos, r.groups, r.lastindex)
                             ELSE Failure)
               [] node.t = "repeat" /\ node.item.t \in {"lit", "any", "in"} ->
                    With(Count(node.item, s, pos, node.max), LAMBDA most :
                        IF most < node.min THEN Failure
                        ELSE IF node.mode = "min"
                        THEN RepeatOne(rest, s, pos, groups, lastindex, node.min, most)
                        ELSE RepeatOne(rest, s, pos, groups, lastindex, most, node.min))
               [] node.t = "repeat" ->
                    sre_match(<<[t |-> "until", of |-> node, count |-> 0, start |-> -1]>>
                                  \o rest, s, pos, groups, lastindex)
               [] node.t = "until" ->
                    LET of == node.of
                        again == /\ of.max = MAXREPEAT \/ node.count < of.max
                                 /\ pos # node.start
                        more == sre_match(<<of.item, [node EXCEPT !.count = @ + 1,
                                                                   !.start = pos]>> \o rest,
                                          s, pos, groups, lastindex)
                        stop == IF node.count >= of.min
                                THEN sre_match(rest, s, pos, groups, lastindex)
                                ELSE Failure
                    IN  IF ~again THEN stop
                        ELSE IF of.mode = "min"
                        THEN With(stop, LAMBDA r : IF r.ok THEN r ELSE more)
                        ELSE With(more, LAMBDA r : IF r.ok THEN r ELSE stop)

\* re.match(P, entry) for a compiled pattern: whether the pattern is no
\* regular expression (re.error), whether it matched at the start of the
\* entry, and match.group('index') when match.lastgroup is 'index'
MatchCompiled(p, entry) ==
    IF p.error THEN [error |-> TRUE, ok |-> FALSE, index |-> <<>>]
    ELSE With(sre_match(<<p.node>>, entry, 1, [g \in 1..p.groups |-> <<>>], 0), LAMBDA r :
             IF ~r.ok THEN [error |-> FALSE, ok |-> FALSE, index |-> <<>>]
             ELSE [error |-> FALSE, ok |-> TRUE,
                   index |-> IF p.index # 0 /\ r.lastindex = p.index
                             THEN r.groups[p.index][1] ELSE <<>>])

\* the patterns re has compiled and keeps: those of the naming formats of
\* the model
CompiledPatterns == [P \in { format_re(f) : f \in NameFormats } |-> compile(P)]

\* re._compile
ReCompile(P) == IF P \in DOMAIN CompiledPatterns THEN CompiledPatterns[P] ELSE compile(P)

ReMatch(re, entry) == With(ReCompile(re), LAMBDA p : MatchCompiled(p, entry))

\* what a method comes out with: the value it returns, or the exception it
\* raises
Returns(value) == [raised |-> "none", value |-> value]
Raises(exception) == [raised |-> exception]

\* a pattern that no name matches
MatchesNothing(entry) == Returns(FALSE)

\* matches_naming_format(name): bool(re.match(naming_format_re, name));
\* re.match raises re.error when naming_format_re is no regular expression
matches_naming_format(entry) ==
    With(ReMatch(naming_format_re, entry), LAMBDA match :
        IF match.error THEN Raises("re.error") ELSE Returns(match.ok))

SetMax(S) == CHOOSE m \in S : \A x \in S : x <= m

\* max_index of get_name: the largest int(match.group('index')) over the
\* entries that match with the group index set, -1 when there is none
MaxIndex(entries) ==
    LET matches == { ReMatch(naming_format_re, e) : e \in entries }
        found == { ParseInt(match.index) :
                     match \in { m \in matches : m.ok /\ m.index # <<>> } }
    IN  IF found = {} THEN -1 ELSE SetMax(found)

\* self.count as get_name sets it before the name is formatted
ResolveCount == IF dir_exists THEN MaxIndex(dir) + 1 ELSE 0

\* for key, val in codes.items(): name.replace(key, time.strftime(val)),
\* from the k-th key on
RECURSIVE ReplaceKeys(_, _, _)
ReplaceKeys(s, time, k) ==
    IF k > Len(NameCodes) THEN s
    ELSE ReplaceKeys(replace(s, NameCodes[k].key, Strftime(NameCodes[k].val, time)),
                     time, k + 1)

\* the name get_name makes of the naming format at the time `time` with
\* the count cnt
Expand(format, time, cnt) ==
    replace(ReplaceKeys(format, time, 1), CountKey, Fmt(cnt, CountWidth))

\* what stands for the name after a get_name that raised re.error
ReError == <<-1>>

\* get_name at the time `time`: re.match is called once for every entry
\* of the directory and raises re.error when naming_format_re is no
\* regular expression; self.count is then left as it was
get_name(time) ==
    /\ calls < MaxCalls
    /\ IF dir_exists /\ dir # {} /\ ReCompile(naming_format_re).error
       THEN /\ name' = ReError
            /\ UNCHANGED count
       ELSE \E cnt \in {ResolveCount} :
                /\ name' = Expand(naming_format, time, cnt)
                /\ count' = <<cnt + 1>>
    /\ calls' = calls + 1
    /\ last_write' = "none"
    /\ UNCHANGED <<naming_format, naming_format_re, dir_exists, dir, keep_past,
                   raise_checkpoint_fail, created, ckpt_run, ckpt_warned>>

Datetimes ==
    { [year |-> 2020, month |-> 3, day |-> 18, hour |-> 9, min |-> 5, sec |-> 7],
      [year |-> 2026, month |-> 10, day |-> 30, hour |-> 23, min |-> 59, sec |-> 59] }

\* the manager asks for a name in its loop and, for the checkpoint at
\* convergence, after it
GetName ==
    /\ ckpt_run \in {"RUNNING", "CONVERGING"}
    /\ \E time \in Datetimes : get_name(time)

\* whether sub stands somewhere in s
Contains(s, sub) ==
    \E i \in 1..(Len(s) - Len(sub) + 1) : SubSeq(s, i, i + Len(sub) - 1) = sub

HasCount(format) == Contains(format, CountKey)

\* the time of an earlier run
EarlierTime ==
    [year |-> 2020, month |-> 3, day |-> 18, hour |-> 9, min |-> 5, sec |-> 7]

\* entries somebody else may create in the directory: checkpoints of an
\* earlier run with the counts 5 and 999, and a name of another kind
OtherCounts == {5, 999}
OtherEntries ==
    { Expand(naming_format, EarlierTime, c) : c \in OtherCounts }
        \cup { Str(<<"x">>) }

\* an entry is created under checkpointing_dir by hand
CreateEntry ==
    /\ ckpt_run = "RUNNING"
    /\ \E e \in OtherEntries :
          /\ e \notin dir
          /\ dir' = dir \cup {e}
          /\ created' = Append(created, e)
    /\ dir_exists' = TRUE
    /\ UNCHANGED <<naming_format, naming_format_re, count, name, calls, keep_past,
                   raise_checkpoint_fail, last_write, ckpt_run, ckpt_warned>>

\* names a directory may hold beside the checkpoints of a run: a name of
\* the naming format, the same followed by a letter and by a digit, the
\* same cut short at either end, and a name of another kind
NameEntries ==
    LET e == Expand(naming_format, EarlierTime, 5)
    IN  { e, e \o Str(<<"x">>), e \o Str(<<"7">>), SubSeq(e, 1, Len(e) - 1),
          Tail(Tail(e)), Str(<<"x">>) }

\* a controller with a naming format of either kind
NameInit ==
    /\ naming_format \in NameFormats
    /\ naming_format_re = format_re(naming_format)
    /\ count = <<>>
    /\ dir_exists \in BOOLEAN
    /\ dir = {}
    /\ name = <<>>
    /\ calls = 0
    /\ keep_past = -1
    /\ raise_checkpoint_fail = FALSE
    /\ created = <<>>
    /\ last_write = "none"
    /\ ckpt_run = "RUNNING"
    /\ ckpt_warned = FALSE

\* an entry is created under checkpointing_dir by hand
PutEntry ==
    /\ ckpt_run = "RUNNING"
    /\ Cardinality(dir) < MaxEntries
    /\ \E e \in NameEntries :
          /\ e \notin dir
          /\ dir' = dir \cup {e}
          /\ created' = Append(created, e)
    /\ dir_exists' = TRUE
    /\ UNCHANGED <<naming_format, naming_format_re, count, name, calls, keep_past,
                   raise_checkpoint_fail, last_write, ckpt_run, ckpt_warned>>

\* the entries of seq that are not in S, in the order of seq
RECURSIVE Without(_, _)
Without(seq, S) ==
    IF seq = <<>> THEN <<>>
    ELSE IF Head(seq) \in S THEN Without(Tail(seq), S)
    ELSE <<Head(seq)>> \o Without(Tail(seq), S)

\* the last n entries of seq
Newest(seq, n) ==
    IF n >= Len(seq) THEN seq ELSE SubSeq(seq, Len(seq) - n + 1, Len(seq))

\* the earlier entries whatever their names are, oldest first
OldCheckpointsAnyName(new) == Without(created, {new})

\* the earlier checkpoints of this naming format, oldest first
OldCheckpoints(new) ==
    Without(created,
            {new} \cup { e \in dir : matches_naming_format(e) # Returns(TRUE) })

\* the earlier checkpoints that retention keeps.  The keep_past most
\* recently created entries of this naming format stay: the new
\* checkpoint, if its name is of the format, and keep_past - 1 earlier
\* ones beside it.  With keep_past = 0 the new checkpoint stays and every
\* other one goes.
RetainedOld(new) ==
    Newest(OldCheckpoints(new),
           IF keep_past = 0 THEN 0
           ELSE IF matches_naming_format(new) = Returns(TRUE)
           THEN keep_past - 1
           ELSE keep_past)

\* retention that runs whether the checkpoint was written or not
RetentionRunsAlways(ok) == keep_past >= 0

\* retention runs after a checkpoint was written, if keep_past >= 0
RetentionRuns(ok) == ok /\ keep_past >= 0

\* retention asks matches_naming_format about every entry of the directory
\* before it deletes one, and matches_naming_format may raise
RetentionRaises(new, ok) ==
    /\ RetentionRuns(ok)
    /\ \E e \in dir \cup {new} : matches_naming_format(e).raised # "none"

\* the earlier checkpoints that retention deletes
Outdated(new, ok) ==
    IF RetentionRuns(ok) /\ ~RetentionRaises(new, ok)
    THEN { OldCheckpoints(new)[i] : i \in 1..Len(OldCheckpoints(new)) }
            \ { RetainedOld(new)[i] : i \in 1..Len(RetainedOld(new)) }
    ELSE {}

\* a failed checkpoint that ends the run whatever raise_checkpoint_fail is
FailureIsFatalAlways == TRUE

\* a failed checkpoint ends the run in error if raise_checkpoint_fail
FailureIsFatal == raise_checkpoint_fail

\* the manager writes the checkpoint under the name get_name returned and
\* applies retention; the write may fail, and retention may raise what
\* matches_naming_format raises
WriteCheckpoint(ok) ==
    /\ ckpt_run \in {"RUNNING", "CONVERGING"}
    /\ calls > 0
    /\ name # ReError
    /\ last_write = "none"
    /\ ok => name \notin dir
    /\ last_write' = IF RetentionRaises(name, ok) THEN "re.error"
                     ELSE IF ok THEN "ok" ELSE "failed"
    /\ dir' = (IF ok THEN dir \cup {name} ELSE dir) \ Outdated(name, ok)
    /\ created' = Without(IF ok THEN Append(created, name) ELSE created,
                          Outdated(name, ok))
    /\ dir_exists' = (dir_exists \/ ok)
    /\ IF ok
       THEN UNCHANGED <<ckpt_run, ckpt_warned>>
       ELSE IF FailureIsFatal
            THEN ckpt_run' = "ERROR" /\ UNCHANGED ckpt_warned
            ELSE ckpt_warned' = TRUE /\ UNCHANGED ckpt_run
    /\ UNCHANGED <<naming_format, naming_format_re, count, name, calls, keep_past,
                   raise_checkpoint_fail>>

WriteStep == \E ok \in BOOLEAN : WriteCheckpoint(ok)

\* the main loop ends: the convergence expression gave true or a stop was
\* requested from outside, and the run is CONVERGING.  Whether and when
\* this happens is not the manager's to decide.
LeaveLoop ==
    /\ ckpt_run = "RUNNING"
    /\ ckpt_run' = "CONVERGING"
    /\ UNCHANGED <<naming_format, naming_format_re, count, dir_exists, dir, name, calls,
                   keep_past, raise_checkpoint_fail, created, last_write,
                   ckpt_warned>>

\* a run that is CONVERGING, the checkpoint at convergence made or not,
\* goes on to STOPPED
StopRun ==
    /\ ckpt_run = "CONVERGING"
    /\ ckpt_run' = "STOPPED"
    /\ UNCHANGED <<naming_format, naming_format_re, count, dir_exists, dir, name, calls,
                   keep_past, raise_checkpoint_fail, created, last_write,
                   ckpt_warned>>

\* values of keep_past: no deletion, only the new checkpoint, the newest
\* one and the newest two checkpoints kept
KeepPasts == {-1, 0, 1, 2}

\* a controller built with the default keep_past and raise_checkpoint_fail
CkptInit ==
    /\ naming_format \in Formats
    /\ naming_format_re = format_re(naming_format)
    /\ count = <<>>
    /\ dir_exists \in BOOLEAN
    /\ dir = {}
    /\ name = <<>>
    /\ calls = 0
    /\ keep_past = -1
    /\ raise_checkpoint_fail = FALSE
    /\ created = <<>>
    /\ last_write = "none"
    /\ ckpt_run = "RUNNING"
    /\ ckpt_warned = FALSE

\* what checkpointing_dir may hold when a run starts, oldest first: nothing,
\* a name of another kind, a checkpoint of an earlier run, or both
OlderEntries ==
    LET old == Expand(naming_format, EarlierTime, 5)
    IN  { <<>>, << Str(<<"x">>) >>, <<old>>, << old, Str(<<"x">>) >> }

\* a controller built with any keep_past and raise_checkpoint_fail, over a
\* directory left by earlier runs
KeepInit ==
    /\ naming_format \in Formats
    /\ naming_format_re = format_re(naming_format)
    /\ count = <<>>
    /\ created \in OlderEntries
    /\ dir = { created[i] : i \in 1..Len(created) }
    /\ dir_exists = (created # <<>>)
    /\ name = <<>>
    /\ calls = 0
    /\ keep_past \in KeepPasts
    /\ raise_checkpoint_fail \in BOOLEAN
    /\ last_write = "none"
    /\ ckpt_run = "RUNNING"
    /\ ckpt_warned = FALSE

(***************************************************************************)
(* The hunt / convergence loop of the manager.  Three workers run under a  *)
(* manager with the hunter expression MinFuncCalls(MinPts) & p, p a        *)
(* hunter of any outcome, and the convergence expression                   *)
(* NOptConverged(1) | MaxKills(2).                                         *)
(***************************************************************************)
Workers == {1, 2, 3}

AllPairs == { <<h, v>> : h \in Workers, v \in Workers } \ { <<w, w>> : w \in Workers }

\* a manager built with a hunter expression and a convergence expression
ManagerInit(hunt_expr, conv_expr) ==
    /\ run_state = "STARTING"
    /\ pc = "start"
    /\ wstate = << >>
    /\ f_call_opt = [w \in Workers |-> << >>]
    /\ f_counter = 0
    /\ conv_counter = 0
    /\ kill_counter = 0
    /\ o_counter = 0
    /\ hunt_victims = {}
    /\ todo = {}
    /\ round_killed = {}
    /\ evaluated = FALSE
    /\ hunters = hunt_expr
    /\ hunt_ret = "None"
    /\ checkers = conv_expr
    /\ conv_ret = "None"
    /\ stop_requested = FALSE
    /\ late = {}
    /\ summary = {}

HuntInit ==
    ManagerInit(CombiCore("And", MinFuncCalls(MinPts), Leaf(<<2>>)),
                CombiCore("Or", NOptConverged(1), MaxKills(2)))

\* a manager whose hunter kills a victim that is still making calls
HuntInitEarly ==
    ManagerInit(CombiCore("And", MinFuncCalls(EarlyMinPts), Leaf(<<2>>)),
                CombiCore("Or", NOptConverged(1), MaxKills(2)))

\* a manager with MinFuncCalls(MinPts) as its only hunter, whose run ends
\* at the first kill or the first worker that converges
HuntInitOneKill ==
    ManagerInit(MinFuncCalls(MinPts),
                CombiCore("Or", NOptConverged(1), MaxKills(1)))

\* the same manager with a third checker c of any outcome:
\* (NOptConverged(1) | MaxKills(2)) | c
HuntInitErr ==
    ManagerInit(CombiCore("And", MinFuncCalls(MinPts), Leaf(<<2>>)),
                CombiCore("Or", CombiCore("Or", NOptConverged(1), MaxKills(2)),
                          Leaf(<<2>>)))

\* the manager starts: the counters are set and the workers launched
StartManager ==
    /\ pc = "start"
    /\ run_state' = "RUNNING"
    /\ wstate' = [w \in Workers |-> "RUNNING"]
    /\ o_counter' = Cardinality(Workers)
    /\ pc' = "drain"
    /\ UNCHANGED <<f_call_opt, f_counter, conv_counter, kill_counter,
                   hunt_victims, todo, round_killed, evaluated, hunters,
                   hunt_ret, checkers, conv_ret, stop_requested, late, summary>>

ExternalStop ==
    /\ run_state = "RUNNING"
    /\ ~stop_requested
    /\ stop_requested' = TRUE
    /\ UNCHANGED <<run_state, pc, wstate, f_call_opt, f_counter,
                   conv_counter, kill_counter, o_counter, hunt_victims, todo,
                   round_killed, evaluated, hunters, hunt_ret, checkers,
                   conv_ret, late, summary>>

\* the workers of which a point can have arrived since the last pass: the
\* running ones and, with the point that was in flight when they were
\* killed, those killed in the hunt round since then
CanAppend == { w \in Workers : /\ wstate[w] = "RUNNING" \/ w \in round_killed
                               /\ Len(f_call_opt[w]) < MaxFCalls }

\* a store that only knows the workers that are running
KnownRunning(w) == wstate[w] = "RUNNING"

\* the worker id is known to the trajectory store
Known(w) == w \in DOMAIN wstate

\* step 1 of the loop.  The workers run on their own: `appended` are those
\* of which a point arrived since the last pass, `ended` those whose
\* optimizer ended by itself.  The points of known workers go into the
\* store and are counted, the workers that ended become CONVERGED; then a
\* hunt round starts if its cadence has elapsed.
Drain(appended, ended, hunt_due) ==
    /\ pc = "drain"
    /\ f_call_opt' = [w \in Workers |->
                        IF w \in appended /\ Known(w)
                        THEN Append(f_call_opt[w], Len(f_call_opt[w]) + 1)
                        ELSE f_call_opt[w]]
    /\ f_counter' = f_counter + Cardinality({ w \in appended : Known(w) })
    /\ late' = { w \in appended : wstate[w] = "KILLED" }
    /\ summary' = summary
    /\ wstate' = [w \in Workers |->
                    IF w \in ended THEN "CONVERGED" ELSE wstate[w]]
    /\ conv_counter' = conv_counter + Cardinality(ended)
    /\ round_killed' = {}
    /\ evaluated' = FALSE
    /\ IF hunt_due
       THEN pc' = "hunt" /\ todo' = AllPairs
       ELSE pc' = "check" /\ todo' = {}
    /\ UNCHANGED <<run_state, kill_counter, o_counter, hunt_victims,
                   hunters, hunt_ret, checkers, conv_ret, stop_requested>>

DrainStep ==
    /\ pc = "drain"
    /\ \E appended \in SUBSET CanAppend,
          ended \in SUBSET { w \in Workers : wstate[w] = "RUNNING" },
          hunt_due \in BOOLEAN :
           Drain(appended, ended, hunt_due)

\* enough history to hunt: the hunter has logged a point
EnoughHistory(h) == f_call_opt[h] # << >>

\* a pair that takes any victim that is not CONVERGED
EligibleStale(h, v) ==
    /\ h # v
    /\ wstate[h] \in {"RUNNING", "CONVERGED"}
    /\ EnoughHistory(h)
    /\ wstate[v] # "CONVERGED"

\* the pairs a hunt round evaluates: the hunter is converged or running
\* and has enough history, the victim is another worker that is running
Eligible(h, v) ==
    /\ h # v
    /\ wstate[h] \in {"RUNNING", "CONVERGED"}
    /\ EnoughHistory(h)
    /\ wstate[v] = "RUNNING"

\* step 2 of the loop, one pair of the hunt round: the hunter expression
\* is evaluated for the pair if it is eligible now; if it gives true the
\* victim is killed.  An exception of a leaf counts as false.
HuntPair(h, v, outcome) ==
    LET ctx == [f_call_opt |-> f_call_opt, hunter_opt_id |-> h,
                victim_opt_id |-> v, outcome |-> outcome]
        r == Call(hunters, ctx, << >>)
        kill == ~r.exc /\ r.res
    IN  /\ pc = "hunt"
        /\ <<h, v>> \in todo
        /\ todo' = todo \ {<<h, v>>}
        /\ pc' = IF todo' = {} THEN "check" ELSE "hunt"
        /\ IF Eligible(h, v)
           THEN /\ evaluated' = TRUE
                /\ hunters' = r.node
                /\ hunt_ret' = Outcome(r)
                /\ IF kill
                   THEN /\ wstate' = [wstate EXCEPT ![v] = "KILLED"]
                        /\ hunt_victims' = hunt_victims \cup {v}
                        /\ kill_counter' = kill_counter + 1
                        /\ round_killed' = round_killed \cup {v}
                   ELSE UNCHANGED <<wstate, hunt_victims, kill_counter,
                                    round_killed>>
           ELSE /\ evaluated' = FALSE
                /\ UNCHANGED <<hunters, hunt_ret, wstate, hunt_victims,
                               kill_counter, round_killed>>
        /\ UNCHANGED <<run_state, f_call_opt, f_counter, conv_counter,
                       o_counter, checkers, conv_ret, stop_requested, late, summary>>

HuntStep ==
    \E h \in Workers, v \in Workers,
       outcome \in [LeafPaths(Leaf(<<2>>), <<2>>) -> {"True", "False", "Raise"}] :
        HuntPair(h, v, outcome)

\* step 3 of the loop: the convergence expression is evaluated on the
\* counters; the loop is left if it gives true or a stop was requested
CheckConvergenceWith(outcome) ==
    LET ctx == [conv_counter |-> conv_counter, kill_counter |-> kill_counter,
                outcome |-> outcome]
        r == Call(checkers, ctx, << >>)
    IN  /\ pc = "check"
        /\ checkers' = r.node
        /\ conv_ret' = Outcome(r)
        /\ IF (~r.exc /\ r.res) \/ stop_requested
           THEN run_state' = "CONVERGING" /\ pc' = "conv"
           ELSE run_state' = run_state /\ pc' = "drain"
        /\ UNCHANGED <<wstate, f_call_opt, f_counter, conv_counter,
                       kill_counter, o_counter, hunt_victims, todo,
                       round_killed, evaluated, hunters, hunt_ret,
                       stop_requested, late, summary>>

\* the stubs of an expression
StubPaths(node) ==
    { p \in LeafPaths(node, << >>) : NodeAt(node, p).cls = "Stub" }

CheckConvergence ==
    /\ pc = "check"
    /\ \E outcome \in [StubPaths(checkers) -> {"True", "False", "Raise"}] :
           CheckConvergenceWith(outcome)

\* a summary of the workers that ran to the end only
StillRunning == { w \in DOMAIN wstate : wstate[w] = "RUNNING" }

\* the workers the manager started
Started == DOMAIN wstate

\* the record of one worker in the run summary (f_best and x_best are
\* values of the points, which the histories here do not hold)
SummaryRecord(w, state) ==
    [opt_id |-> w,
     end_cond |-> CASE state = "KILLED" -> "killed by a hunter"
                    [] state = "CONVERGED" -> "optimizer convergence"
                    [] state = "STOPPED" -> "manager convergence",
     f_calls |-> Len(f_call_opt[w])]

\* the run ends: the workers still running are stopped, the run is
\* STOPPED and the summary is written, one record per worker
StopManager ==
    /\ pc = "conv"
    /\ wstate' = [w \in DOMAIN wstate |->
                    IF wstate[w] = "RUNNING" THEN "STOPPED" ELSE wstate[w]]
    /\ run_state' = "STOPPED"
    /\ summary' = { SummaryRecord(w, wstate'[w]) : w \in Started }
    /\ pc' = "done"
    /\ UNCHANGED <<f_call_opt, f_counter, conv_counter,
                   kill_counter, o_counter, hunt_victims, todo, round_killed,
                   evaluated, hunters, hunt_ret, checkers, conv_ret,
                   stop_requested, late>>

HuntIdle ==
    /\ run_state = "STARTING"
    /\ pc = "start"
    /\ wstate = << >>
    /\ f_call_opt = << >>
    /\ f_counter = 0
    /\ conv_counter = 0
    /\ kill_counter = 0
    /\ o_counter = 0
    /\ hunt_victims = {}
    /\ todo = {}
    /\ round_killed = {}
    /\ evaluated = FALSE
    /\ hunters = Leaf(<< >>)
    /\ hunt_ret = "None"
    /\ checkers = Leaf(<< >>)
    /\ conv_ret = "None"
    /\ stop_requested = FALSE
    /\ late = {}
    /\ summary = {}

(***************************************************************************)
(* KillsAfterConvergence (glompo/convergence/nkillsafterconv.py), evaluated *)
(* on a manager whose workers converge and are killed between the          *)
(* evaluations.                                                            *)
(***************************************************************************)
\* KillsAfterConvergence.__init__ on an instance of a class that has a
\* check_convergence (a subclass that defines it); BaseChecker.__init__
\* sets _converged, the result that is_converged_str shows; _last_result is
\* an attribute only after the first __call__
KacInstance(n_killed, n_converged) ==
    [enough_conv |-> FALSE, kill_count |-> 0, n_converged |-> n_converged,
     n_killed |-> n_killed, last_result |-> "None", converged |-> FALSE,
     raised |-> "none"]

\* KillsAfterConvergence(n_killed, n_converged): BaseChecker declares
\* check_convergence abstract and the class does not define it, so the
\* constructor raises TypeError before __init__ runs and there is no
\* instance; the arguments are kept for the record only
KillsAfterConvergence(n_killed, n_converged) ==
    [KacInstance(n_killed, n_converged) EXCEPT !.raised = "TypeError"]

\* a baseline taken anew at every evaluation that sees enough converged
\* workers
KacBaselineAlways(self, manager) ==
    IF manager.conv_counter >= self.n_converged
    THEN [self EXCEPT !.enough_conv = TRUE,
                      !.kill_count = Cardinality(manager.hunt_victims)]
    ELSE self

\* the baseline of kills is taken when the checker first sees enough
\* converged workers
KacBaseline(self, manager) ==
    IF manager.conv_counter >= self.n_converged /\ ~self.enough_conv
    THEN [self EXCEPT !.enough_conv = TRUE,
                      !.kill_count = Cardinality(manager.hunt_victims)]
    ELSE self

\* a call that computes its result once and gives the stored result from
\* then on
KacCallStored(self, manager) ==
    IF self.last_result # "None" THEN self
    ELSE LET s1 == KacBaseline(self, manager)
         IN  [s1 EXCEPT !.last_result =
                 PyStr(s1.enough_conv
                       /\ Cardinality(manager.hunt_victims) - s1.kill_count
                             >= s1.n_killed)]

\* a call that asks for exactly n_killed kills after the baseline
KacCallExact(self, manager) ==
    LET s1 == KacBaseline(self, manager)
    IN  [s1 EXCEPT !.last_result =
            PyStr(s1.enough_conv
                  /\ Cardinality(manager.hunt_victims) - s1.kill_count
                        = s1.n_killed)]

\* KillsAfterConvergence.__call__: the checker after the call
KacCall(self, manager) ==
    LET s1 == KacBaseline(self, manager)
    IN  [s1 EXCEPT !.last_result =
            PyStr(s1.enough_conv
                  /\ Cardinality(manager.hunt_victims) - s1.kill_count
                        >= s1.n_killed)]

\* the checker is built from the class itself or from a subclass that
\* supplies check_convergence
KacStart ==
    /\ \E n_killed \in 0..2, n_converged \in 1..MaxConv :
          \/ kac = KillsAfterConvergence(n_killed, n_converged)
          \/ kac = KacInstance(n_killed, n_converged)
    /\ kac_mgr = [conv_counter |-> 0, hunt_victims |-> {}]
    /\ kac_ret = "None"
    /\ conv_moment = <<>>

\* no hunter beside the checker
NoHunter ==
    /\ mfc = MinFuncCalls(MinPts)
    /\ mfc_ret = "None"

KacInit == KacStart /\ NoHunter

\* a checker and a hunter MinFuncCalls(min_pts)
LeafInit ==
    /\ KacStart
    /\ \E min_pts \in 1..MinPts : mfc = MinFuncCalls(min_pts)
    /\ mfc_ret = "None"

\* a worker converges by itself
MgrConverge ==
    /\ kac_mgr.conv_counter < MaxConv
    /\ kac_mgr' = [kac_mgr EXCEPT !.conv_counter = @ + 1]
    /\ conv_moment' =
          IF conv_moment = <<>> /\ kac_mgr.conv_counter + 1 >= kac.n_converged
          THEN <<Cardinality(kac_mgr.hunt_victims)>>
          ELSE conv_moment
    /\ UNCHANGED <<kac, kac_ret, mfc, mfc_ret>>

\* the manager kills a worker
MgrKill ==
    /\ Cardinality(kac_mgr.hunt_victims) < MaxVictims
    /\ kac_mgr' = [kac_mgr EXCEPT
                     !.hunt_victims = @ \cup {Cardinality(@) + 1}]
    /\ UNCHANGED <<kac, kac_ret, conv_moment, mfc, mfc_ret>>

\* the checker is evaluated on the manager
KacEvaluate ==
    /\ kac.raised = "none"
    /\ kac' = KacCall(kac, kac_mgr)
    /\ kac_ret' = kac'.last_result
    /\ UNCHANGED <<kac_mgr, conv_moment, mfc, mfc_ret>>

\* the f_call_opt histories a worker may have in the log: the number of
\* its function calls after each iteration
Histories == { [i \in 1..n |-> i] : n \in 0..(MinPts + 1) }

\* the log as MinFuncCalls sees it: worker 1 hunts, worker 2 is the victim
LogOf(history) ==
    [f_call_opt |-> <<history, history>>, hunter_opt_id |-> 1,
     victim_opt_id |-> 2]

\* the hunter is called on a log in which the victim has any history;
\* the call raises IndexError on a victim without history
MfcEvaluate ==
    /\ \E history \in Histories :
          LET r == LeafCall(mfc, LogOf(history), <<>>)
          IN  /\ mfc' = r.node
              /\ mfc_ret' = IF r.exc THEN "Raise" ELSE PyStr(r.res)
    /\ UNCHANGED <<kac, kac_mgr, kac_ret, conv_moment>>

KacIdle ==
    /\ kac = KillsAfterConvergence(0, 1)
    /\ kac_mgr = [conv_counter |-> 0, hunt_victims |-> {}]
    /\ kac_ret = "None"
    /\ conv_moment = <<>>
    /\ NoHunter

(***************************************************************************)
(* The combinators of the checkers (glompo/convergence/basechecker.py).    *)
(* A tree of kind "Or" is read as an _AnyChecker, built with the operator *)
(* +, a tree of kind "And" as an _AllChecker, built with the operator for  *)
(* multiplication.  The same expression is evaluated by __call__ of        *)
(* corebase.py and by check_convergence, with the same outcomes of the     *)
(* leaves.                                                                 *)
(***************************************************************************)
RECURSIVE check_convergence(_, _, _)
\* a list comprehension calls check_convergence of every base checker, in
\* order, and stops at the first that raises; any() / all() then read the
\* list
check_convergence(node, ctx, path) ==
    IF node.kind = "Leaf"
    THEN LET r == LeafCall(node, ctx, path)
         IN  [exc |-> r.exc, res |-> r.res, trace |-> r.trace]
    ELSE LET r1 == check_convergence(node.base1, ctx, path \o <<1>>)
             r2 == check_convergence(node.base2, ctx, path \o <<2>>)
         IN  IF r1.exc
             THEN [exc |-> TRUE, res |-> FALSE,
                   trace |-> <<CallEv(path)>> \o r1.trace \o <<RaiseEv(path)>>]
             ELSE IF r2.exc
             THEN [exc |-> TRUE, res |-> FALSE,
                   trace |-> <<CallEv(path)>> \o r1.trace \o r2.trace
                                \o <<RaiseEv(path)>>]
             ELSE LET res == IF node.kind = "Or" THEN r1.res \/ r2.res
                                                ELSE r1.res /\ r2.res
                  IN  [exc |-> FALSE, res |-> res,
                       trace |-> <<CallEv(path)>> \o r1.trace \o r2.trace
                                    \o <<RetEv(path, res)>>]

\* F + F*T + T*(T + F) as Python builds it: (F + (F*T)) + (T*(T + F))
ExampleTree ==
    CombiCore("Or",
        CombiCore("Or", Leaf(<<1, 1>>),
                        CombiCore("And", Leaf(<<1, 2, 1>>), Leaf(<<1, 2, 2>>))),
        CombiCore("And", Leaf(<<2, 1>>),
                         CombiCore("Or", Leaf(<<2, 2, 1>>), Leaf(<<2, 2, 2>>))))

\* the outcomes F, F, T, T, T, F of its leaves
ExampleOutcome ==
    [p \in LeafPaths(ExampleTree, <<>>) |->
        IF p \in {<<1, 1>>, <<1, 2, 1>>, <<2, 2, 2>>} THEN "False" ELSE "True"]

NoOutcome == <<>>

ChkInit ==
    /\ ctree \in Trees \cup {ExampleTree}
    /\ given = NoOutcome
    /\ otrace = <<>>
    /\ oret = "None"
    /\ ctrace = <<>>
    /\ cret = "None"

\* the expression is evaluated both ways
EvaluateBoth(outcome) ==
    LET o == Call(ctree, [outcome |-> outcome], <<>>)
        c == check_convergence(ctree, [outcome |-> outcome], <<>>)
    IN  /\ given' = outcome
        /\ otrace' = o.trace
        /\ oret' = Outcome(o)
        /\ ctrace' = c.trace
        /\ cret' = Outcome(c)
        /\ UNCHANGED ctree

\* an evaluation reads nothing an earlier evaluation wrote: each
\* expression is evaluated once
EvaluateBothStep ==
    /\ given = NoOutcome
    /\ \E outcome \in [LeafPaths(ctree, <<>>) -> {"True", "False", "Raise"}] :
        EvaluateBoth(outcome)

ChkIdle ==
    /\ ctree = Leaf(<<>>)
    /\ given = NoOutcome
    /\ otrace = <<>>
    /\ oret = "None"
    /\ ctrace = <<>>
    /\ cret = "None"

(***************************************************************************)
(* Building composites.  An operand is an instance of _CoreBase (a hunter  *)
(* expression), an instance of BaseChecker, or something else.             *)
(***************************************************************************)
CoreNode(node) == [fam |-> "core", node |-> node]
CheckerNode(node) == [fam |-> "checker", node |-> node]
\* anything else, named by its class
Other(cls) == [fam |-> "other", cls |-> cls]

TypeError == [fam |-> "TypeError"]

\* _CombiCore.__init__ without the isinstance check
CombiCoreUnchecked(kind, base1, base2) ==
    CoreNode([kind |-> kind, base1 |-> base1, base2 |-> base2])

\* _CombiCore.__init__: both bases must be instances of _CoreBase
NewCombiCore(kind, base1, base2) ==
    IF \E base \in {base1, base2} : base.fam # "core"
    THEN TypeError
    ELSE CoreNode([kind |-> kind, base1 |-> base1, base2 |-> base2])

\* _CombiChecker.__init__: base1, base2 and any further base must be
\* instances of BaseChecker
NewCombiChecker(kind, combi) ==
    IF \E i \in 1..Len(combi) : combi[i].fam # "checker"
    THEN TypeError
    ELSE CheckerNode([kind |-> kind, base_checkers |-> combi])

\* a | b and a & b: __or__ and __and__ are methods of _CoreBase only, and
\* no class has the reflected methods, so Python raises TypeError when the
\* left operand is of another class
CoreOperator(kind, a, b) ==
    IF a.fam = "core" THEN NewCombiCore(kind, a, b) ELSE TypeError

\* a + b and a * b: __add__ and __mul__ are methods of BaseChecker only
CheckerOperator(kind, a, b) ==
    IF a.fam = "checker" THEN NewCombiChecker(kind, <<a, b>>) ELSE TypeError

\* the operands of the model
Operands ==
    { CoreNode(Leaf(<<>>)),
      CoreNode(CombiCore("Or", Leaf(<<1>>), Leaf(<<2>>))),
      CheckerNode(Leaf(<<>>)),
      CheckerNode(CombiCore("And", Leaf(<<1>>), Leaf(<<2>>))),
      Other("int"), Other("NoneType"), Other("str") }

NoBuild == [via |-> "none", args |-> <<>>, result |-> TypeError]

BuildInit == build = NoBuild

\* a | b, a & b, a + b, a * b with a decision node among the operands
BuildByOperator ==
    \E via \in {"|", "&", "+", "*"}, a \in Operands, b \in Operands :
        /\ a.fam # "other" \/ b.fam # "other"
        /\ build' =
              [via |-> via, args |-> <<a, b>>,
               result |-> CASE via = "|" -> CoreOperator("Or", a, b)
                            [] via = "&" -> CoreOperator("And", a, b)
                            [] via = "+" -> CheckerOperator("Any", a, b)
                            [] via = "*" -> CheckerOperator("All", a, b)]

\* _OrCore(a, b) and _AndCore(a, b)
BuildCore ==
    \E via \in {"_OrCore", "_AndCore"}, a \in Operands, b \in Operands :
        build' = [via |-> via, args |-> <<a, b>>,
                  result |-> NewCombiCore(via, a, b)]

\* _CombiChecker, _AnyChecker and _AllChecker of two or three bases
BuildChecker ==
    \E via \in {"_CombiChecker", "_AnyChecker", "_AllChecker"},
       n \in 2..3 :
        \E combi \in [1..n -> Operands] :
            build' = [via |-> via, args |-> combi,
                      result |-> NewCombiChecker(via, combi)]

BuildIdle == build = NoBuild

\* a Python value handed to a constructor: its class and, for a number,
\* its value counted in halves (2 is the int 1, 1 the float 0.5)
PyValue(cls, halves) == [fam |-> "value", cls |-> cls, halves |-> halves]

MaxPts == 3

\* ints from -1 to MaxPts, floats, bools, a string and None
Values ==
    { PyValue("int", 2 * n) : n \in -1..MaxPts }
        \cup { PyValue("float", h) : h \in {-1, 0, 1, 4, 5} }
        \cup { PyValue("bool", 0), PyValue("bool", 2),
               PyValue("str", 0), PyValue("NoneType", 0) }

ValueError == [fam |-> "ValueError"]

\* min_pts > 0: a number is compared by value, `>` between a str or None
\* and an int raises TypeError
GreaterThanZero(v) ==
    IF v.cls \in {"int", "float", "bool"} THEN PyStr(v.halves > 0)
    ELSE "TypeError"

\* isinstance(min_pts, int): bool is a subclass of int
IsInstanceInt(v) == v.cls \in {"int", "bool"}

\* MinFuncCalls.__init__: `if min_pts > 0 and isinstance(min_pts, int)`,
\* else ValueError
MinFuncCallsInit(v) ==
    IF GreaterThanZero(v) = "TypeError" THEN TypeError
    ELSE IF GreaterThanZero(v) = "True" /\ IsInstanceInt(v)
         THEN CoreNode(MinFuncCalls(v.halves \div 2))
         ELSE ValueError

\* MinFuncCalls(min_pts)
BuildMinFuncCalls ==
    \E v \in Values :
        build' = [via |-> "MinFuncCalls", args |-> <<v>>,
                  result |-> MinFuncCallsInit(v)]

(***************************************************************************)
(* Rendering as a string.  A string is a sequence of characters.           *)
(***************************************************************************)
\* _CoreBase.__str__ and BaseChecker.__str__ of a leaf whose __init__ takes
\* no parameter: the class name and "()"
LeafStr(node) == <<"S", "t", "u", "b", "(", ")">>

\* f" = {self._last_result}"
ResultStr(last_result) ==
    <<" ", "=", " ">> \o
    CASE last_result = "None" -> <<"N", "o", "n", "e">>
      [] last_result = "True" -> <<"T", "r", "u", "e">>
      [] last_result = "False" -> <<"F", "a", "l", "s", "e">>

\* the keyword _OrCore and _AndCore hand to _combi_string_maker
CoreKeyword(kind) == IF kind = "Or" THEN <<"|">> ELSE <<"&">>

\* the separator of _AnyChecker.__str__ and _AllChecker.__str__
CheckerSeparator(kind) ==
    IF kind = "Or" THEN <<" ", "O", "R", " ", "\n">>
    ELSE <<" ", "A", "N", "D", " ", "\n">>

\* _CombiCore._combi_string_maker: f"[{self.base1} {keyword} \n{self.base2}]"
RECURSIVE CoreStr(_)
CoreStr(node) ==
    IF node.kind = "Leaf" THEN LeafStr(node)
    ELSE <<"[">> \o CoreStr(node.base1) \o <<" ">> \o CoreKeyword(node.kind)
            \o <<" ", "\n">> \o CoreStr(node.base2) \o <<"]">>

\* _CombiCore._combi_result_string_maker
RECURSIVE CoreStrWithResult(_)
CoreStrWithResult(node) ==
    IF node.kind = "Leaf" THEN LeafStr(node) \o ResultStr(node.last_result)
    ELSE <<"[">> \o CoreStrWithResult(node.base1) \o <<" ">>
            \o CoreKeyword(node.kind) \o <<" ", "\n">>
            \o CoreStrWithResult(node.base2) \o <<"]">>

\* _AnyChecker.__str__ and _AllChecker.__str__: every base followed by the
\* separator, then the last separator cut off (mess[:-5], mess[:-6])
RECURSIVE CheckerStr(_)
CheckerStr(node) ==
    IF node.kind = "Leaf" THEN LeafStr(node)
    ELSE LET mess == CheckerStr(node.base1) \o CheckerSeparator(node.kind)
                        \o CheckerStr(node.base2) \o CheckerSeparator(node.kind)
         IN  SubSeq(mess, 1, Len(mess) - Len(CheckerSeparator(node.kind)))

\* BaseChecker.is_converged_str: str(self) and " = " and _converged;
\* _AnyChecker and _AllChecker join those of their bases
RECURSIVE CheckerConvergedStr(_)
CheckerConvergedStr(node) ==
    IF node.kind = "Leaf" THEN LeafStr(node) \o ResultStr("False")
    ELSE LET mess == CheckerConvergedStr(node.base1)
                        \o CheckerSeparator(node.kind)
                        \o CheckerConvergedStr(node.base2)
                        \o CheckerSeparator(node.kind)
         IN  SubSeq(mess, 1, Len(mess) - Len(CheckerSeparator(node.kind)))

NoDescription == [of |-> "none", node |-> Leaf(<<>>), str |-> <<>>]

StrInit == described = NoDescription

StrIdle == described = NoDescription

\* str(node) and node.str_with_result() of a hunter expression
DescribeCore ==
    \E node \in Trees :
        \/ described' = [of |-> "_CoreBase.__str__", node |-> node,
                         str |-> CoreStr(node)]
        \/ described' = [of |-> "_CoreBase.str_with_result", node |-> node,
                         str |-> CoreStrWithResult(node)]

\* str(node) and node.is_converged_str() of a checker expression
DescribeChecker ==
    \E node \in Trees :
        \/ described' = [of |-> "BaseChecker.__str__", node |-> node,
                         str |-> CheckerStr(node)]
        \/ described' = [of |-> "BaseChecker.is_converged_str", node |-> node,
                         str |-> CheckerConvergedStr(node)]

(***************************************************************************)
(* EstimatedEffects (glompo/analysis/estimatedeffect.py): construction     *)
(* with a grouping matrix and add_trajectory.  An array is known by its    *)
(* shape; a grouping matrix is a sequence of k rows of g entries.          *)
(***************************************************************************)
MaxDims == 2
MaxTraj == 2

RECURSIVE SeqSum(_)
SeqSum(row) == IF row = <<>> THEN 0 ELSE Head(row) + SeqSum(Tail(row))

\* np.sum(groupings)
MatrixSum(mat) == SeqSum([i \in 1..Len(mat) |-> SeqSum(mat[i])])

\* np.identity(input_dims)
Identity(n) == [i \in 1..n |-> [j \in 1..n |-> IF i = j THEN 1 ELSE 0]]

\* the grouping matrices of the model: rows of 0 / 1 entries
Groupings ==
    UNION { [1..k -> [1..g -> {0, 1}]] : k \in 1..MaxDims, g \in 1..MaxDims }

\* groupings=None
NoGroupings == <<>>

\* shapes of the arrays handed to add_trajectory: (a, b) and (a,)
Shapes ==
    { <<a, b>> : a \in 1..(MaxDims + 1), b \in 1..MaxDims }
        \cup { <<a>> : a \in 1..(MaxDims + 1) }

NoInstance ==
    [state |-> "none", dims |-> 0, out_dims |-> 0, groupings |-> <<>>,
     trajectories |-> <<>>, outputs |-> <<>>,
     last |-> "none", args |-> <<>>, raised |-> "none"]

EEInit == ee = NoInstance

EEIdle == ee = NoInstance

\* EstimatedEffects.g: self.groupings.shape[1]
G(inst) == Len(inst.groupings[1])

\* the test of __init__: np.sum(self._groupings) != input_dims raises
SumIsDims(mat, input_dims) == MatrixSum(mat) = input_dims

\* EstimatedEffects.__init__(input_dims, output_dims, groupings)
EstimatedEffectsInit(input_dims, output_dims, groupings) ==
    LET mat == IF groupings # NoGroupings THEN groupings
               ELSE Identity(input_dims)
    IN  IF ~SumIsDims(mat, input_dims)
        THEN [NoInstance EXCEPT !.state = "failed", !.last = "__init__",
                                !.args = <<input_dims, output_dims, groupings>>,
                                !.raised = "ValueError"]
        ELSE [NoInstance EXCEPT !.state = "built", !.last = "__init__",
                                !.args = <<input_dims, output_dims, groupings>>,
                                !.dims = input_dims,
                                !.out_dims = output_dims,
                                !.groupings = mat]

Construct ==
    /\ ee.state = "none"
    /\ \E input_dims \in 1..MaxDims, output_dims \in 1..MaxDims,
          groupings \in Groupings \cup {NoGroupings} :
           ee' = EstimatedEffectsInit(input_dims, output_dims, groupings)

\* the three shape tests of add_trajectory, in their order
ShapeRejected(inst, trajectory, outputs) ==
    \/ trajectory # <<G(inst) + 1, inst.dims>>
    \/ inst.out_dims > 1 /\ outputs # <<G(inst) + 1, inst.out_dims>>
    \/ inst.out_dims = 1
         /\ (outputs # <<G(inst) + 1, inst.out_dims>>
                \/ outputs # <<G(inst) + 1>>)

\* EstimatedEffects.add_trajectory(trajectory, outputs)
add_trajectory(inst, trajectory, outputs) ==
    IF ShapeRejected(inst, trajectory, outputs)
    THEN [inst EXCEPT !.last = "add_trajectory",
                      !.args = <<trajectory, outputs>>,
                      !.raised = "ValueError"]
    ELSE [inst EXCEPT !.last = "add_trajectory",
                      !.args = <<trajectory, outputs>>,
                      !.raised = "none",
                      !.trajectories = Append(@, trajectory),
                      !.outputs =
                          Append(@, IF inst.out_dims = 1
                                    THEN <<G(inst) + 1, inst.out_dims>>
                                    ELSE outputs)]

AddTrajectory ==
    /\ ee.state = "built"
    /\ Len(ee.trajectories) < MaxTraj
    /\ \E trajectory \in Shapes, outputs \in Shapes :
          ee' = add_trajectory(ee, trajectory, outputs)

(***************************************************************************)
(* The checkpoint triggers.  A CheckpointingControl is built with any      *)
(* frequencies and flags; the manager asks it at the start of the run, at  *)
(* every pass of its loop and at convergence whether a checkpoint is due.  *)
(***************************************************************************)
MaxFreq == 2        \* largest finite checkpoint frequency
MaxSince == 3       \* cap on the time and the calls since the last checkpoint

\* float('inf') and the finite frequencies
Infinite == [inf |-> TRUE, val |-> 0]

Finite(n) == [inf |-> FALSE, val |-> n]

Frequencies == {Infinite} \cup { Finite(n) : n \in 1..MaxFreq }

\* CheckpointingControl.__init__: the four trigger options are stored
CheckpointingControl(time_frequency, iter_frequency, at_init, at_conv) ==
    [checkpoint_time_frequency |-> time_frequency,
     checkpoint_iter_frequency |-> iter_frequency,
     checkpoint_at_init |-> at_init,
     checkpoint_at_conv |-> at_conv]

\* a control whose defaults checkpoint at the start of the run
DefaultControlAtInit == CheckpointingControl(Infinite, Infinite, TRUE, FALSE)

\* CheckpointingControl(): the defaults of __init__
DefaultControl == CheckpointingControl(Infinite, Infinite, FALSE, FALSE)

Controls ==
    { CheckpointingControl(tf, itf, ai, ac) :
        tf \in Frequencies, itf \in Frequencies,
        ai \in BOOLEAN, ac \in BOOLEAN }

\* x >= frequency; no finite x reaches float('inf')
Reached(x, frequency) == ~frequency.inf /\ x >= frequency.val

\* the trigger policy: a checkpoint is due when one of the configured
\* conditions holds
CheckpointDue(ctl, event, elapsed, fcalls) ==
    \/ Reached(elapsed, ctl.checkpoint_time_frequency)
    \/ Reached(fcalls, ctl.checkpoint_iter_frequency)
    \/ event = "init" /\ ctl.checkpoint_at_init
    \/ event = "conv" /\ ctl.checkpoint_at_conv

NoRun ==
    [ctl |-> DefaultControl, phase |-> "none", elapsed |-> 0, fcalls |-> 0,
     asked |-> <<"none", 0, 0>>, fired |-> FALSE]

TrigIdle == trig = NoRun

TrigInit ==
    \E ctl \in Controls :
        trig = [NoRun EXCEPT !.ctl = ctl, !.phase = "start"]

\* the manager asks the control with the event of the step, the time and
\* the calls since the last checkpoint; a checkpoint that is due is made
\* and both are counted from it again
Ask(run, phase, event, elapsed, fcalls) ==
    LET due == CheckpointDue(run.ctl, event, elapsed, fcalls)
    IN  [run EXCEPT !.phase = phase,
                    !.asked = <<event, elapsed, fcalls>>,
                    !.fired = due,
                    !.elapsed = IF due THEN 0 ELSE elapsed,
                    !.fcalls = IF due THEN 0 ELSE fcalls]

\* the run starts
TrigStart ==
    /\ trig.phase = "start"
    /\ trig' = Ask(trig, "loop", "init", trig.elapsed, trig.fcalls)

\* one pass of the main loop, in which dt time units went by and df
\* function calls were made
TrigLoop ==
    /\ trig.phase = "loop"
    /\ \E dt \in 0..1, df \in 0..1 :
          /\ trig.elapsed + dt <= MaxSince
          /\ trig.fcalls + df <= MaxSince
          /\ trig' = Ask(trig, "loop", "loop", trig.elapsed + dt,
                         trig.fcalls + df)

\* the run converges
TrigConverge ==
    /\ trig.phase = "loop"
    /\ trig' = Ask(trig, "stopped", "conv", trig.elapsed, trig.fcalls)

(***************************************************************************)
(* The retry loop of estimate_mle (glompo/core/regression.py), attempt by  *)
(* attempt, for one call on a regressor with an empty cache.               *)
(***************************************************************************)
NoCall ==
    [pc |-> "idle", t |-> << >>, y |-> << >>, key |-> NoKey, x |-> 0,
     i |-> 0, perturbed |-> 0, minimized |-> 0, succeeded |-> 0,
     warned |-> FALSE, result |-> NoResult]

MleIdle == mle = NoCall

\* the call has missed the cache and made its closed-form guess
MleInit ==
    \E d \in Trajectories, key \in Keys, x \in FitValues :
        mle = [NoCall EXCEPT !.pc = "loop", !.t = d.t, !.y = d.y,
                             !.key = key, !.x = x]

\* a loop that goes on after a successful minimisation
AttemptNoReturn(run, success) ==
    [run EXCEPT !.perturbed = IF run.i > 0 THEN @ + 1 ELSE @,
                !.minimized = @ + 1,
                !.succeeded = IF success THEN @ + 1 ELSE @,
                !.i = @ + 1]

\* the body of `for i in range(10)`: the guess is perturbed when i > 0,
\* minimize runs, and mle.x is returned when mle.success
Attempt(run, success) ==
    LET tried == [run EXCEPT !.perturbed = IF run.i > 0 THEN @ + 1 ELSE @,
                             !.minimized = @ + 1]
    IN  IF success
        THEN [tried EXCEPT !.pc = "done", !.succeeded = @ + 1,
                           !.result = MleResult(run.x)]
        ELSE [tried EXCEPT !.i = @ + 1]

\* after the loop: the warning, and the guess as it stands is returned
GiveUp(run) ==
    [run EXCEPT !.pc = "done", !.warned = TRUE,
                !.result = RoughResult(run.x, run.perturbed)]

\* `if cache_key: self.mle_cache[cache_key] = RegressorCacheItem(...)`
MleCacheWrite(run) ==
    IF run.pc = "done" /\ Cacheable(run.key)
    THEN CachePut(mle_cache, run.key,
                  RegressorCacheItem(HashKey(run.t, run.y), run.result))
    ELSE mle_cache

MleAttempt ==
    /\ mle.pc = "loop"
    /\ mle.i < MaxAttempts
    /\ \E success \in BOOLEAN : mle' = Attempt(mle, success)
    /\ mle_cache' = MleCacheWrite(mle')
    /\ UNCHANGED <<mcc_cache, reg_last>>

MleGiveUp ==
    /\ mle.pc = "loop"
    /\ mle.i = MaxAttempts
    /\ mle' = GiveUp(mle)
    /\ mle_cache' = MleCacheWrite(mle')
    /\ UNCHANGED <<mcc_cache, reg_last>>

(***************************************************************************)
(* Threads calling estimate_mle on one DataRegressor.  The method takes no *)
(* lock: a call reads self.mle_cache (line 80), returns the entry it found *)
(* (line 81) or minimises on its own locals and assigns one entry of the   *)
(* dict (lines 110, 116).  hash_key and the estimates are locals of the    *)
(* call.                                                                   *)
(***************************************************************************)
Threads == {1, 2}

\* calls a thread makes
MaxThrCalls == 2

NoItem == RegressorCacheItem(<< >>, NoResult)

NoThread ==
    [pc |-> "idle", t |-> << >>, y |-> << >>, hash_key |-> << >>,
     result |-> NoResult, calls |-> 0, last |-> NoItem]

ThrIdle == thr = << >>

ThrInit == thr = [w \in Threads |-> NoThread]

\* every caller passing the same key
ThrKeyShared(w) == <<1>>

\* the cache key a hunt evaluation passes: the opt_id of its victim
ThrKey(w) == <<w>>

\* the trajectories a thread may hold
ThrTrajectories ==
    { [t |-> <<0, 1>>, y |-> <<1, -1>>], [t |-> <<0, 2>>, y |-> <<1, -1>>] }

\* the estimate minimize comes out with is a function of the data it was
\* given: it is named by the last time coordinate of that data
FitOf(t, y) == t[Len(t)]

\* what a call that missed the cache computes from its data
Computed(t, y, success) ==
    IF success THEN MleResult(FitOf(t, y))
               ELSE RoughResult(FitOf(t, y), MaxAttempts - 1)

\* the call is entered: hash_key = hash((tuple(t), tuple(y)))
ThrCall(w) ==
    /\ thr[w].pc = "idle"
    /\ thr[w].calls < MaxThrCalls
    /\ \E d \in ThrTrajectories :
          thr' = [thr EXCEPT ![w] = [@ EXCEPT !.pc = "lookup", !.t = d.t,
                                              !.y = d.y,
                                              !.hash_key = HashKey(d.t, d.y),
                                              !.result = NoResult,
                                              !.calls = @ + 1]]
    /\ UNCHANGED mle_cache

\* the condition of line 80, read from the shared dict
ThrLookup(w) ==
    /\ thr[w].pc = "lookup"
    /\ LET key == ThrKey(w)
           hit == /\ Cacheable(key)
                  /\ key \in DOMAIN mle_cache
                  /\ thr[w].hash_key = mle_cache[key].hash
       IN  thr' = [thr EXCEPT ![w].pc = IF hit THEN "hit" ELSE "compute"]
    /\ UNCHANGED mle_cache

\* line 81: the entry is read again and its result returned
ThrReturnCached(w) ==
    /\ thr[w].pc = "hit"
    /\ thr' = [thr EXCEPT ![w] = [@ EXCEPT !.pc = "idle",
                                          !.result = mle_cache[ThrKey(w)].result]]
    /\ UNCHANGED mle_cache

\* lines 83-107 and 114: the guess and the minimisations, on locals
ThrCompute(w) ==
    /\ thr[w].pc = "compute"
    /\ \E success \in BOOLEAN :
          thr' = [thr EXCEPT ![w] = [@ EXCEPT !.pc = "write",
                                              !.result = Computed(thr[w].t, thr[w].y, success)]]
    /\ UNCHANGED mle_cache

\* lines 109-111 and 115-117: one assignment to the dict, and the return
ThrWrite(w) ==
    /\ thr[w].pc = "write"
    /\ LET item == RegressorCacheItem(thr[w].hash_key, thr[w].result)
       IN  /\ mle_cache' = IF Cacheable(ThrKey(w))
                           THEN CachePut(mle_cache, ThrKey(w), item)
                           ELSE mle_cache
           /\ thr' = [thr EXCEPT ![w] = [@ EXCEPT !.pc = "idle", !.last = item]]

\* the next step of a call that has been entered
ThrStep(w) ==
    \/ ThrLookup(w)
    \/ ThrReturnCached(w)
    \/ ThrCompute(w)
    \/ ThrWrite(w)

vars == <<combiVars, regVars, ckptVars, huntVars, kacVars, chkVars, build,
          described, ee, trig, mle, thr>>

CkptIdle ==
    /\ naming_format = <<>>
    /\ naming_format_re = <<>>
    /\ count = <<>>
    /\ dir_exists = FALSE
    /\ dir = {}
    /\ name = <<>>
    /\ calls = 0
    /\ keep_past = -1
    /\ raise_checkpoint_fail = FALSE
    /\ created = <<>>
    /\ last_write = "none"
    /\ ckpt_run = "RUNNING"
    /\ ckpt_warned = FALSE

RegIdle == RegInit

Init == CombiInit /\ RegIdle /\ CkptIdle /\ HuntIdle /\ KacIdle /\ ChkIdle /\ BuildIdle /\ StrIdle /\ EEIdle /\ TrigIdle /\ MleIdle /\ ThrIdle

Next == Evaluate /\ UNCHANGED <<regVars, ckptVars, huntVars, kacVars, chkVars, build, described, ee, trig, mle, thr>>

Spec == Init /\ [][Next]_vars

\* a tree that is evaluated and, between evaluations, reset by its holder
InitReset == ResetInit /\ RegIdle /\ CkptIdle /\ HuntIdle /\ KacIdle /\ ChkIdle /\ BuildIdle /\ StrIdle /\ EEIdle /\ TrigIdle /\ MleIdle /\ ThrIdle

NextReset ==
    \/ Evaluate /\ UNCHANGED <<regVars, ckptVars, huntVars, kacVars, chkVars, build, described, ee, trig, mle, thr>>
    \/ Reset /\ UNCHANGED <<regVars, ckptVars, huntVars, kacVars, chkVars, build, described, ee, trig, mle, thr>>

SpecReset == InitReset /\ [][NextReset]_vars

CombiIdle == tree = Leaf(<<>>) /\ trace = <<>> /\ ret = "None"

InitReg == RegInit /\ CombiIdle /\ CkptIdle /\ HuntIdle /\ KacIdle /\ ChkIdle /\ BuildIdle /\ StrIdle /\ EEIdle /\ TrigIdle /\ MleIdle /\ ThrIdle

NextReg ==
    \/ EstimateMle /\ UNCHANGED <<combiVars, ckptVars, huntVars, kacVars, chkVars, build, described, ee, trig, mle, thr>>
    \/ EstimateParameters /\ UNCHANGED <<combiVars, ckptVars, huntVars, kacVars, chkVars, build, described, ee, trig, mle, thr>>

SpecReg == InitReg /\ [][NextReg]_vars

InitCkpt == CkptInit /\ CombiIdle /\ RegIdle /\ HuntIdle /\ KacIdle /\ ChkIdle /\ BuildIdle /\ StrIdle /\ EEIdle /\ TrigIdle /\ MleIdle /\ ThrIdle

NextCkpt ==
    \/ GetName /\ UNCHANGED <<combiVars, regVars, huntVars, kacVars, chkVars, build, described, ee, trig, mle, thr>>
    \/ CreateEntry /\ UNCHANGED <<combiVars, regVars, huntVars, kacVars, chkVars, build, described, ee, trig, mle, thr>>
    \/ WriteStep /\ UNCHANGED <<combiVars, regVars, huntVars, kacVars, chkVars, build, described, ee, trig, mle, thr>>

SpecCkpt == InitCkpt /\ [][NextCkpt]_vars

InitName == NameInit /\ CombiIdle /\ RegIdle /\ HuntIdle /\ KacIdle /\ ChkIdle /\ BuildIdle /\ StrIdle /\ EEIdle /\ TrigIdle /\ MleIdle /\ ThrIdle

NextName ==
    \/ GetName /\ UNCHANGED <<combiVars, regVars, huntVars, kacVars, chkVars, build, described, ee, trig, mle, thr>>
    \/ PutEntry /\ UNCHANGED <<combiVars, regVars, huntVars, kacVars, chkVars, build, described, ee, trig, mle, thr>>

SpecName == InitName /\ [][NextName]_vars

InitKeep == KeepInit /\ CombiIdle /\ RegIdle /\ HuntIdle /\ KacIdle /\ ChkIdle /\ BuildIdle /\ StrIdle /\ EEIdle /\ TrigIdle /\ MleIdle /\ ThrIdle

NextKeep ==
    \/ GetName /\ UNCHANGED <<combiVars, regVars, huntVars, kacVars, chkVars, build, described, ee, trig, mle, thr>>
    \/ WriteStep /\ UNCHANGED <<combiVars, regVars, huntVars, kacVars, chkVars, build, described, ee, trig, mle, thr>>
    \/ LeaveLoop /\ UNCHANGED <<combiVars, regVars, huntVars, kacVars, chkVars, build, described, ee, trig, mle, thr>>
    \/ StopRun /\ UNCHANGED <<combiVars, regVars, huntVars, kacVars, chkVars, build, described, ee, trig, mle, thr>>

SpecKeep == InitKeep /\ [][NextKeep]_vars

\* the manager is one sequential program: once its loop has ended it goes
\* on to STOPPED.  Nothing makes the loop end: LeaveLoop has no fairness.
SpecKeepFair ==
    SpecKeep /\ WF_vars(StopRun /\ UNCHANGED <<combiVars, regVars, huntVars, kacVars, chkVars, build, described, ee, trig, mle, thr>>)

InitHunt == HuntInit /\ CombiIdle /\ RegIdle /\ CkptIdle /\ KacIdle /\ ChkIdle /\ BuildIdle /\ StrIdle /\ EEIdle /\ TrigIdle /\ MleIdle /\ ThrIdle

NextHunt ==
    \/ StartManager /\ UNCHANGED <<combiVars, regVars, ckptVars, kacVars, chkVars, build, described, ee, trig, mle, thr>>
    \/ ExternalStop /\ UNCHANGED <<combiVars, regVars, ckptVars, kacVars, chkVars, build, described, ee, trig, mle, thr>>
    \/ DrainStep /\ UNCHANGED <<combiVars, regVars, ckptVars, kacVars, chkVars, build, described, ee, trig, mle, thr>>
    \/ HuntStep /\ UNCHANGED <<combiVars, regVars, ckptVars, kacVars, chkVars, build, described, ee, trig, mle, thr>>
    \/ CheckConvergence /\ UNCHANGED <<combiVars, regVars, ckptVars, kacVars, chkVars, build, described, ee, trig, mle, thr>>
    \/ StopManager /\ UNCHANGED <<combiVars, regVars, ckptVars, kacVars, chkVars, build, described, ee, trig, mle, thr>>

SpecHunt == InitHunt /\ [][NextHunt]_vars

\* a step of the manager's own loop (a stop request comes from outside)
LoopStep ==
    /\ StartManager \/ DrainStep \/ HuntStep \/ CheckConvergence \/ StopManager
    /\ UNCHANGED <<combiVars, regVars, ckptVars, kacVars, chkVars, build, described, ee, trig, mle, thr>>

InitHuntOneKill == HuntInitOneKill /\ CombiIdle /\ RegIdle /\ CkptIdle /\ KacIdle /\ ChkIdle /\ BuildIdle /\ StrIdle /\ EEIdle /\ TrigIdle /\ MleIdle /\ ThrIdle

\* the manager keeps taking the steps of its loop
SpecHuntFair == InitHuntOneKill /\ [][NextHunt]_vars /\ WF_vars(LoopStep)

InitHuntErr == HuntInitErr /\ CombiIdle /\ RegIdle /\ CkptIdle /\ KacIdle /\ ChkIdle /\ BuildIdle /\ StrIdle /\ EEIdle /\ TrigIdle /\ MleIdle /\ ThrIdle

SpecHuntErr == InitHuntErr /\ [][NextHunt]_vars

InitHuntEarly == HuntInitEarly /\ CombiIdle /\ RegIdle /\ CkptIdle /\ KacIdle /\ ChkIdle /\ BuildIdle /\ StrIdle /\ EEIdle /\ TrigIdle /\ MleIdle /\ ThrIdle

SpecHuntEarly == InitHuntEarly /\ [][NextHunt]_vars

InitKac == KacInit /\ CombiIdle /\ RegIdle /\ CkptIdle /\ HuntIdle /\ ChkIdle /\ BuildIdle /\ StrIdle /\ EEIdle /\ TrigIdle /\ MleIdle /\ ThrIdle

NextKac ==
    \/ MgrConverge /\ UNCHANGED <<combiVars, regVars, ckptVars, huntVars, chkVars, build, described, ee, trig, mle, thr>>
    \/ MgrKill /\ UNCHANGED <<combiVars, regVars, ckptVars, huntVars, chkVars, build, described, ee, trig, mle, thr>>
    \/ KacEvaluate /\ UNCHANGED <<combiVars, regVars, ckptVars, huntVars, chkVars, build, described, ee, trig, mle, thr>>

SpecKac == InitKac /\ [][NextKac]_vars

InitLeaf == LeafInit /\ CombiIdle /\ RegIdle /\ CkptIdle /\ HuntIdle /\ ChkIdle /\ BuildIdle /\ StrIdle /\ EEIdle /\ TrigIdle /\ MleIdle /\ ThrIdle

NextLeaf ==
    \/ MgrConverge /\ UNCHANGED <<combiVars, regVars, ckptVars, huntVars, chkVars, build, described, ee, trig, mle, thr>>
    \/ MgrKill /\ UNCHANGED <<combiVars, regVars, ckptVars, huntVars, chkVars, build, described, ee, trig, mle, thr>>
    \/ KacEvaluate /\ UNCHANGED <<combiVars, regVars, ckptVars, huntVars, chkVars, build, described, ee, trig, mle, thr>>
    \/ MfcEvaluate /\ UNCHANGED <<combiVars, regVars, ckptVars, huntVars, chkVars, build, described, ee, trig, mle, thr>>

SpecLeaf == InitLeaf /\ [][NextLeaf]_vars

InitChk == ChkInit /\ CombiIdle /\ RegIdle /\ CkptIdle /\ HuntIdle /\ KacIdle /\ BuildIdle /\ StrIdle /\ EEIdle /\ TrigIdle /\ MleIdle /\ ThrIdle

NextChk ==
    EvaluateBothStep
        /\ UNCHANGED <<combiVars, regVars, ckptVars, huntVars, kacVars, build, described, ee, trig, mle, thr>>

SpecChk == InitChk /\ [][NextChk]_vars

AllIdle == CombiIdle /\ RegIdle /\ CkptIdle /\ HuntIdle /\ KacIdle /\ ChkIdle /\ TrigIdle

InitBuild == BuildInit /\ AllIdle /\ StrIdle /\ EEIdle /\ TrigIdle /\ MleIdle /\ ThrIdle

\* build attempts are independent of one another: one attempt per behaviour
NextBuild ==
    \/ BuildIdle /\ BuildByOperator /\ UNCHANGED <<combiVars, regVars, ckptVars, huntVars, kacVars, chkVars, described, ee, trig, mle, thr>>
    \/ BuildIdle /\ BuildCore /\ UNCHANGED <<combiVars, regVars, ckptVars, huntVars, kacVars, chkVars, described, ee, trig, mle, thr>>
    \/ BuildIdle /\ BuildChecker /\ UNCHANGED <<combiVars, regVars, ckptVars, huntVars, kacVars, chkVars, described, ee, trig, mle, thr>>
    \/ BuildIdle /\ BuildMinFuncCalls /\ UNCHANGED <<combiVars, regVars, ckptVars, huntVars, kacVars, chkVars, described, ee, trig, mle, thr>>

SpecBuild == InitBuild /\ [][NextBuild]_vars

InitStr == StrInit /\ AllIdle /\ BuildIdle /\ EEIdle /\ TrigIdle /\ MleIdle /\ ThrIdle

\* renderings are independent of one another: one rendering per behaviour
NextStr ==
    \/ StrIdle /\ DescribeCore /\ UNCHANGED <<combiVars, regVars, ckptVars, huntVars, kacVars, chkVars, build, ee, trig, mle, thr>>
    \/ StrIdle /\ DescribeChecker /\ UNCHANGED <<combiVars, regVars, ckptVars, huntVars, kacVars, chkVars, build, ee, trig, mle, thr>>

SpecStr == InitStr /\ [][NextStr]_vars

InitEE == EEInit /\ AllIdle /\ BuildIdle /\ StrIdle /\ MleIdle /\ ThrIdle

NextEE ==
    \/ Construct /\ UNCHANGED <<combiVars, regVars, ckptVars, huntVars, kacVars, chkVars, build, described, trig, mle, thr>>
    \/ AddTrajectory /\ UNCHANGED <<combiVars, regVars, ckptVars, huntVars, kacVars, chkVars, build, described, trig, mle, thr>>

SpecEE == InitEE /\ [][NextEE]_vars

InitTrig == TrigInit /\ CombiIdle /\ RegIdle /\ CkptIdle /\ HuntIdle /\ KacIdle /\ ChkIdle /\ BuildIdle /\ StrIdle /\ EEIdle /\ MleIdle /\ ThrIdle

NextTrig ==
    \/ TrigStart /\ UNCHANGED <<combiVars, regVars, ckptVars, huntVars, kacVars, chkVars, build, described, ee, mle, thr>>
    \/ TrigLoop /\ UNCHANGED <<combiVars, regVars, ckptVars, huntVars, kacVars, chkVars, build, described, ee, mle, thr>>
    \/ TrigConverge /\ UNCHANGED <<combiVars, regVars, ckptVars, huntVars, kacVars, chkVars, build, described, ee, mle, thr>>

SpecTrig == InitTrig /\ [][NextTrig]_vars

\* calls made for the workers of a run: the cache key is an opt_id or None
MaxOptId == 2

OptKeys == {NoKey} \cup { <<k>> : k \in 1..MaxOptId }

\* two trajectories; minimize succeeds at once or never in estimate_mle,
\* at once in the fallback of estimate_parameters
OptTrajectories ==
    { [t |-> <<0, 1>>, y |-> <<1, -1>>], [t |-> <<0, 2>>, y |-> <<1, -1>>] }

EstimateMleOpt ==
    \E d \in OptTrajectories, key \in OptKeys, succ_at \in {0, MaxAttempts} :
        estimate_mle(d.t, d.y, key, succ_at, 1)

EstimateParametersOpt ==
    \E d \in OptTrajectories, key \in OptKeys, sampler_ok \in BOOLEAN :
        estimate_parameters(d.t, d.y, key, sampler_ok, 0, 1)

NextRegOpt ==
    \/ EstimateMleOpt /\ UNCHANGED <<combiVars, ckptVars, huntVars, kacVars, chkVars, build, described, ee, trig, mle, thr>>
    \/ EstimateParametersOpt /\ UNCHANGED <<combiVars, ckptVars, huntVars, kacVars, chkVars, build, described, ee, trig, mle, thr>>

SpecRegOpt == InitReg /\ [][NextRegOpt]_vars

InitThr ==
    /\ ThrInit /\ RegInit
    /\ CombiIdle /\ CkptIdle /\ HuntIdle /\ KacIdle /\ ChkIdle /\ TrigIdle
    /\ BuildIdle /\ StrIdle /\ EEIdle /\ MleIdle

NextThr ==
    \/ (\E w \in Threads : ThrCall(w)) /\ UNCHANGED <<combiVars, mcc_cache, reg_last, ckptVars, huntVars, kacVars, chkVars, build, described, ee, trig, mle>>
    \/ (\E w \in Threads : ThrLookup(w)) /\ UNCHANGED <<combiVars, mcc_cache, reg_last, ckptVars, huntVars, kacVars, chkVars, build, described, ee, trig, mle>>
    \/ (\E w \in Threads : ThrReturnCached(w)) /\ UNCHANGED <<combiVars, mcc_cache, reg_last, ckptVars, huntVars, kacVars, chkVars, build, described, ee, trig, mle>>
    \/ (\E w \in Threads : ThrCompute(w)) /\ UNCHANGED <<combiVars, mcc_cache, reg_last, ckptVars, huntVars, kacVars, chkVars, build, described, ee, trig, mle>>
    \/ (\E w \in Threads : ThrWrite(w)) /\ UNCHANGED <<combiVars, mcc_cache, reg_last, ckptVars, huntVars, kacVars, chkVars, build, described, ee, trig, mle>>

SpecThr == InitThr /\ [][NextThr]_vars

InitMle == MleInit /\ AllIdle /\ BuildIdle /\ StrIdle /\ EEIdle /\ ThrIdle

NextMle ==
    \/ MleAttempt /\ UNCHANGED <<combiVars, ckptVars, huntVars, kacVars, chkVars, build, described, ee, trig, thr>>
    \/ MleGiveUp /\ UNCHANGED <<combiVars, ckptVars, huntVars, kacVars, chkVars, build, described, ee, trig, thr>>

\* minimize returns, so the call keeps going through its loop
SpecMle == InitMle /\ [][NextMle]_vars /\ WF_vars(NextMle)

(***************************************************************************)
(* What the trace of the most recent evaluation says about a node.         *)
(***************************************************************************)
CallIdx(p) == { i \in 1..Len(trace) : trace[i].ev = "call" /\ trace[i].path = p }
CallCount(p) == Cardinality(CallIdx(p))
Called(p) == CallIdx(p) # {}
Returned(p) ==
    { trace[i].res : i \in { j \in 1..Len(trace) :
                               trace[j].ev = "ret" /\ trace[j].path = p } }
\* no node at or below p was invoked
Untouched(p) ==
    \A i \in 1..Len(trace) : ~IsPrefix(p, trace[i].path)

FirstChildFirst(p) ==
    \A i \in CallIdx(p) :
        /\ i < Len(trace)
        /\ trace[i + 1].ev = "call"
        /\ trace[i + 1].path = p \o <<1>>

KindPaths(k) == { p \in Paths(tree, <<>>) : NodeAt(tree, p).kind = k }

\* C1: an OR composite evaluates base1 first; if base1 returns true, base2
\* is not invoked and the composite returns true; if base1 returns false,
\* base2 is invoked exactly once and its result is returned.
C1_OrShortCircuit ==
    \A p \in KindPaths("Or") :
        Called(p) =>
            /\ CallCount(p \o <<1>>) = 1
            /\ FirstChildFirst(p)
            /\ Returned(p \o <<1>>) = {"True"} =>
                  /\ Untouched(p \o <<2>>)
                  /\ Returned(p) = {"True"}
            /\ Returned(p \o <<1>>) = {"False"} =>
                  /\ CallCount(p \o <<2>>) = 1
                  /\ Returned(p) = Returned(p \o <<2>>)

C1_Witness ==
    \E p \in KindPaths("Or"), q \in KindPaths("Or") :
        /\ Called(p) /\ Returned(p \o <<1>>) = {"True"}
        /\ NodeAt(tree, p \o <<2>>).kind # "Leaf"
        /\ Called(q) /\ Returned(q \o <<1>>) = {"False"} /\ Called(q \o <<2>>)

\* C2: an AND composite evaluates base1 first; if base1 returns false,
\* base2 is not invoked and the composite returns false; if base1 returns
\* true, base2 is invoked exactly once and its result is returned.
C2_AndShortCircuit ==
    \A p \in KindPaths("And") :
        Called(p) =>
            /\ CallCount(p \o <<1>>) = 1
            /\ FirstChildFirst(p)
            /\ Returned(p \o <<1>>) = {"False"} =>
                  /\ Untouched(p \o <<2>>)
                  /\ Returned(p) = {"False"}
            /\ Returned(p \o <<1>>) = {"True"} =>
                  /\ CallCount(p \o <<2>>) = 1
                  /\ Returned(p) = Returned(p \o <<2>>)

C2_Witness ==
    \E p \in KindPaths("And"), q \in KindPaths("And") :
        /\ Called(p) /\ Returned(p \o <<1>>) = {"False"}
        /\ NodeAt(tree, p \o <<2>>).kind # "Leaf"
        /\ Called(q) /\ Returned(q \o <<1>>) = {"True"} /\ Called(q \o <<2>>)

\* C3: after any sequence of top-level evaluations, str_with_result shows
\* None for every node skipped by short-circuiting in the most recent
\* evaluation, at any nesting depth.
C3_SkippedShowUnknown ==
    \A p \in LeafPaths(tree, <<>>) :
        (trace # <<>> /\ ~Called(p)) => ShownFor(p) = {"None"}

(***************************************************************************)
(* Claims about the hunt round and the convergence check.                  *)
(***************************************************************************)
\* the step takes one pair of the hunt round
PairStep == pc = "hunt" /\ todo' # todo

\* the pair the step takes
ThePair == CHOOSE p \in todo : p \notin todo'

\* the step moves worker w to KILLED
KillOf(w) == wstate[w] # "KILLED" /\ wstate'[w] = "KILLED"

\* C4: within a hunt round the hunter expression is evaluated only for a
\* pair of two different workers of which the victim is RUNNING and neither
\* was killed earlier in the round; a kill targets the victim of that pair,
\* so that no worker is killed twice, none hunts itself and a CONVERGED
\* worker is never killed.
C4_KillTargetsRunningOther ==
    [][ /\ (PairStep /\ evaluated') =>
              /\ ThePair[1] # ThePair[2]
              /\ wstate[ThePair[2]] = "RUNNING"
              /\ wstate[ThePair[1]] # "KILLED"
              /\ ThePair[1] \notin round_killed
              /\ ThePair[2] \notin round_killed
        /\ \A w \in DOMAIN wstate :
              KillOf(w) =>
                  /\ PairStep /\ evaluated'
                  /\ w = ThePair[2]
                  /\ wstate[w] = "RUNNING"
                  /\ w \notin hunt_victims
                  /\ hunt_victims' = hunt_victims \cup {w}
                  /\ kill_counter' = kill_counter + 1
        /\ \A w \in DOMAIN wstate :
              wstate[w] \in {"KILLED", "CONVERGED"} => wstate'[w] = wstate[w]
      ]_vars

\* a pair was skipped in a round in which a worker was killed, while every
\* worker not killed in this round is running and has history: the skipped
\* pair has a worker killed earlier in the round as hunter or as victim
C4_Witness ==
    /\ pc \in {"hunt", "check"}
    /\ todo # AllPairs
    /\ ~evaluated
    /\ round_killed # {}
    /\ hunt_victims = round_killed
    /\ \A w \in Workers \ round_killed :
          wstate[w] = "RUNNING" /\ EnoughHistory(w)

\* the convergence expression NOptConverged(1) | MaxKills(2) on the counters
CheckerHolds == conv_counter >= 1 \/ kill_counter >= 2

\* C5: the run leaves the main loop in the first iteration whose
\* convergence check gives true or finds a stop requested, and never
\* before: it is RUNNING in every state of the loop, the check gives true
\* exactly when the converged counter is at least 1 or the kill counter at
\* least 2, and no iteration starts with the expression true.
C5_LeavesLoopAtFirstTrueCheck ==
    [][ /\ (run_state = "RUNNING" /\ run_state' # "RUNNING") =>
              /\ pc = "check"
              /\ run_state' = "CONVERGING"
              /\ CheckerHolds \/ stop_requested
        /\ (pc = "check" /\ pc' # "check") =>
              /\ conv_ret' = "True" <=> CheckerHolds
              /\ (CheckerHolds \/ stop_requested) <=> run_state' = "CONVERGING"
              /\ (CheckerHolds \/ stop_requested) <=> pc' # "drain"
        /\ pc \in {"drain", "hunt", "check"} => run_state = "RUNNING"
        /\ pc = "drain" => ~CheckerHolds
      ]_vars

\* the loop was left on the second kill, with no worker converged and no
\* stop requested, after a check that did not leave it
C5_Witness ==
    /\ run_state = "CONVERGING"
    /\ conv_ret = "True"
    /\ conv_counter = 0
    /\ kill_counter = 2
    /\ ~stop_requested
    /\ Cardinality(round_killed) = 1

\* C6: a worker is moved to KILLED only by a pair step in which the hunter
\* expression gave true for a pair with that worker as victim; under
\* MinFuncCalls(MinPts) & p the victim has a history whose last
\* function-call count is at least MinPts, whatever the hunter.
C6_KilledOnlyOnTrueHunt ==
    [][ \A w \in DOMAIN wstate :
            KillOf(w) =>
                /\ PairStep
                /\ ThePair[2] = w
                /\ evaluated'
                /\ hunt_ret' = "True"
                /\ f_call_opt[w] # << >>
                /\ Last(f_call_opt[w]) >= MinPts ]_vars

\* a worker was killed by a hunter that has fewer function calls than
\* MinPts, while a worker with fewer calls than MinPts is still running
C6_Witness ==
    /\ pc = "hunt"
    /\ evaluated
    /\ hunt_ret = "True"
    /\ \E v \in round_killed, h \in Workers \ round_killed :
          /\ wstate[v] = "KILLED"
          /\ Len(f_call_opt[h]) = 1
          /\ MinPts > 1
          /\ \A u \in Workers \ {v, h} : f_call_opt[u] = << >>

(***************************************************************************)
(* Claims about the regressor cache.                                       *)
(***************************************************************************)
SameCallAgain ==
    /\ reg_last.fn = "estimate_mle"
    /\ reg_last'.fn = "estimate_mle"
    /\ reg_last'.key = reg_last.key
    /\ reg_last'.t = reg_last.t
    /\ reg_last'.y = reg_last.y

\* C7: for every integer cache key k >= 0, of two consecutive estimate_mle
\* calls with identical (t, y) and the same key the second runs no fit and
\* returns the value the first call produced.
C7_SecondCallIsCacheHit ==
    [][ (SameCallAgain /\ reg_last.key # NoKey) =>
            /\ ~reg_last'.computed
            /\ reg_last'.result = reg_last.result ]_vars

SameKeyOtherData ==
    /\ reg_last.fn = "estimate_mle"
    /\ reg_last'.fn = "estimate_mle"
    /\ reg_last'.key = reg_last.key
    /\ reg_last.key # NoKey
    /\ <<reg_last'.t, reg_last'.y>> # <<reg_last.t, reg_last.y>>

\* C8: if the data of an estimate_mle call with key k differs in any way
\* from the data of the previous call with key k, the cached entry is not
\* returned: the fit is recomputed and the entry of k, when k has one, is
\* replaced by the new result.
C8_ChangedDataRecomputes ==
    [][ SameKeyOtherData =>
            /\ reg_last'.computed
            /\ reg_last.key \in DOMAIN mle_cache' =>
                  mle_cache'[reg_last.key] =
                      RegressorCacheItem(HashKey(reg_last'.t, reg_last'.y),
                                         reg_last'.result) ]_vars

(***************************************************************************)
(* Claims about checkpoint naming.                                         *)
(***************************************************************************)
\* the count the most recent get_name put into the name
ReturnedCount == count[1] - 1

\* the count a directory entry carries: the digits that start where the
\* group index starts, up to the first character that is not a digit
RECURSIVE DigitRun(_, _)
DigitRun(entry, pos) ==
    IF pos <= Len(entry) /\ IsDigit(entry[pos])
    THEN <<entry[pos]>> \o DigitRun(entry, pos + 1)
    ELSE <<>>

\* the items of a naming format from its position i on: a special key,
\* with the number of characters it expands to, or a character
RECURSIVE FormatItems(_, _)
FormatItems(format, i) ==
    IF i > Len(format) THEN <<>>
    ELSE LET at(key) == /\ i + Len(key) - 1 <= Len(format)
                        /\ SubSeq(format, i, i + Len(key) - 1) = key
             keys == { k \in DOMAIN NameCodes : at(NameCodes[k].key) }
         IN  IF at(CountKey)
             THEN <<[kind |-> "count", width |-> CountWidth]>>
                      \o FormatItems(format, i + Len(CountKey))
             ELSE IF keys # {}
             THEN LET k == CHOOSE k \in keys : TRUE
                  IN  <<[kind |-> "key", width |-> ReCodes[k].digits]>>
                          \o FormatItems(format, i + Len(NameCodes[k].key))
             ELSE <<[kind |-> "char", width |-> 1, char |-> format[i]]>>
                      \o FormatItems(format, i + 1)

\* the items of the naming formats of the model
ItemsOf == [f \in NameFormats |-> FormatItems(f, 1)]

\* where the count stands in an expansion of the items k.. of a format
RECURSIVE CountPos(_, _)
CountPos(items, k) ==
    IF items[k].kind = "count" THEN 1
    ELSE items[k].width + CountPos(items, k + 1)

EmbeddedCount(entry) ==
    ParseInt(DigitRun(entry, CountPos(ItemsOf[naming_format], 1)))

MatchingEntries == { e \in dir : matches_naming_format(e) = Returns(TRUE) }

\* C9: with %(count) in the naming format, successive get_name calls on one
\* controller against an empty or absent directory return strictly
\* increasing counts, also when no entry is created between the calls.
C9_SuccessiveCountsIncrease ==
    [][ ( /\ HasCount(naming_format)
          /\ calls > 0
          /\ calls' = calls + 1
          /\ dir = {} )
        => count'[1] - 1 > ReturnedCount ]_vars

\* C10: get_name resolves %(count) to one more than the largest count
\* embedded in a matching directory entry, to 0 when the directory is
\* absent or holds no matching entry, and always to a count strictly
\* greater than the count of every existing matching entry.
C10_CountIsMaxPlusOne ==
    [][ (HasCount(naming_format) /\ calls' = calls + 1) =>
            LET existing == { EmbeddedCount(e) : e \in MatchingEntries }
                new == count'[1] - 1
            IN  /\ (~dir_exists \/ existing = {}) => new = 0
                /\ existing # {} => new = SetMax(existing) + 1
                /\ \A c \in existing : new > c ]_vars

(***************************************************************************)
(* Claims about retention and failed checkpoints.                          *)
(***************************************************************************)
\* names the naming formats produce
Expansions ==
    [f \in NameFormats |->
        { Expand(f, t, c) : t \in Datetimes \cup {EarlierTime},
                            c \in 0..(MaxCalls + 6) }]

\* names the naming format produces
IsCheckpoint(e) == e \in Expansions[naming_format]

Checkpoints(entries) == { e \in entries : IsCheckpoint(e) }

SeqSet(seq) == { seq[i] : i \in 1..Len(seq) }

\* the checkpoints there are once the new one is written, oldest first
AllCheckpoints ==
    Without(Append(created, name), { e \in dir : ~IsCheckpoint(e) })

WroteOk == last_write = "none" /\ last_write' = "ok"

WriteFailed == last_write = "none" /\ last_write' = "failed"

\* C11 as stated: with keep_past = k >= 0, after each successful write
\* exactly the k most recently created checkpoints remain.
C11_KeepsNewestK ==
    [][ (WroteOk /\ keep_past >= 0) =>
            Checkpoints(dir') = SeqSet(Newest(AllCheckpoints, keep_past)) ]_vars

\* C11: with keep_past = k >= 1, after each successful write exactly the k
\* most recently created checkpoints remain, the new one among them; with
\* keep_past = 0 the new checkpoint remains and no other.
C11_KeepsNewestKOrNew ==
    [][ (WroteOk /\ keep_past >= 0) =>
            /\ name \in dir'
            /\ keep_past >= 1 =>
                  Checkpoints(dir') = SeqSet(Newest(AllCheckpoints, keep_past))
            /\ keep_past = 0 => Checkpoints(dir') = {name} ]_vars

\* with keep_past = 2 the checkpoints 005 (of an earlier run), 006, 007,
\* 008 and 009 were created in sequence: 008 and 009 are left
C11_Witness ==
    /\ keep_past = 2
    /\ last_write = "ok"
    /\ HasCount(naming_format)
    /\ count = <<10>>
    /\ created[Len(created)] = name
    /\ { EmbeddedCount(e) : e \in Checkpoints(dir) } = {8, 9}

\* C12: with keep_past = 0, after a successful write the new checkpoint is
\* the only checkpoint in the directory.
C12_OnlyNewLeft ==
    [][ (WroteOk /\ keep_past = 0) =>
            /\ name \in dir'
            /\ Checkpoints(dir') = {name} ]_vars

\* with keep_past = 0 a checkpoint was written over a directory that held
\* an earlier checkpoint and a name of another kind
C12_Witness ==
    /\ keep_past = 0
    /\ last_write = "ok"
    /\ dir = {name, Str(<<"x">>)}
    /\ calls >= 2

\* C13: a failed write leaves every entry of the directory in place,
\* whatever keep_past is.
C13_FailedWriteKeepsEntries ==
    [][ WriteFailed => (dir \subseteq dir' /\ created' = created) ]_vars

\* a write failed with keep_past = 0 while the directory held an earlier
\* checkpoint
C13_Witness ==
    /\ last_write = "failed"
    /\ keep_past = 0
    /\ Checkpoints(dir) \ {name} # {}

\* C14: a failed write ends the run in error if and only if
\* raise_checkpoint_fail is set, and the run ends in error in no other way;
\* otherwise the failure leaves a warning and the run goes on as it was,
\* in its loop or converging, with the directory as it was; and a run
\* without raise_checkpoint_fail whose loop has ended reaches STOPPED,
\* whatever writes failed before or fail after the loop ended.
C14_FailureFatalIffRaise ==
    /\ [][ /\ WriteFailed =>
                /\ ckpt_run' = "ERROR" <=> raise_checkpoint_fail
                /\ ~raise_checkpoint_fail =>
                      /\ ckpt_warned'
                      /\ ckpt_run' = ckpt_run
                      /\ dir' = dir
           /\ (ckpt_run # "ERROR" /\ ckpt_run' = "ERROR") =>
                (WriteFailed /\ raise_checkpoint_fail)
           /\ (~ckpt_warned /\ ckpt_warned') =>
                (WriteFailed /\ ~raise_checkpoint_fail) ]_vars
    /\ ((ckpt_run = "CONVERGING" /\ ~raise_checkpoint_fail)
            ~> ckpt_run = "STOPPED")

\* a write failed in the loop and left a warning, another checkpoint was
\* written, the write of the checkpoint at convergence failed, and the
\* run stopped
C14_Witness ==
    /\ ckpt_warned
    /\ ~raise_checkpoint_fail
    /\ last_write = "failed"
    /\ calls = MaxCalls
    /\ Cardinality(Checkpoints(dir)) >= 2
    /\ ckpt_run = "STOPPED"

(***************************************************************************)
(* Claims about KillsAfterConvergence.                                     *)
(***************************************************************************)
\* workers killed after conv_counter reached n_converged
KilledAfterConv ==
    IF conv_moment = <<>> THEN 0
    ELSE Cardinality(kac_mgr.hunt_victims) - conv_moment[1]

\* C15: KillsAfterConvergence(n_killed, n_converged) gives true exactly when
\* at least n_converged workers have converged and at least n_killed were
\* killed after that; KillsAfterConvergence(2, 1), evaluated for the first
\* time with 2 converged and 6 killed workers, gives false.
C15_TrueIffKilledAfterConv ==
    [][ /\ (kac_mgr' = kac_mgr /\ conv_moment' = conv_moment) =>
              (kac_ret' = "True" <=>
                  /\ kac_mgr.conv_counter >= kac.n_converged
                  /\ KilledAfterConv >= kac.n_killed)
        /\ ( /\ kac_mgr' = kac_mgr /\ conv_moment' = conv_moment
             /\ kac_ret = "None"
             /\ kac.n_killed = 2 /\ kac.n_converged = 1
             /\ kac_mgr.conv_counter = 2
             /\ Cardinality(kac_mgr.hunt_victims) = 6 )
           => kac_ret' = "False" ]_vars

(***************************************************************************)
(* Claims about the value of an expression and about the two engines.      *)
(***************************************************************************)
\* the boolean formula of a tree: Or is \/, And is /\
RECURSIVE Formula(_, _)
Formula(node, path) ==
    IF node.kind = "Leaf" THEN given[path] = "True"
    ELSE IF node.kind = "Or"
    THEN Formula(node.base1, path \o <<1>>) \/ Formula(node.base2, path \o <<2>>)
    ELSE Formula(node.base1, path \o <<1>>) /\ Formula(node.base2, path \o <<2>>)

\* the leaves were given fixed boolean outcomes
BooleanOutcomes ==
    /\ given # NoOutcome
    /\ \A p \in DOMAIN given : given[p] \in {"True", "False"}

\* C16: with boolean outcomes of the leaves an expression evaluates to the
\* value of its boolean formula, built with | & or with + *; the
\* expression F + F*T + T*(T + F) evaluates to true.
C16_ValueIsFormula ==
    /\ BooleanOutcomes =>
          /\ oret = PyStr(Formula(ctree, <<>>))
          /\ cret = PyStr(Formula(ctree, <<>>))
    /\ (ctree = ExampleTree /\ given = ExampleOutcome) =>
          (oret = "True" /\ cret = "True")

\* F + F*T + T*(T + F) was evaluated
C16_Witness ==
    /\ ctree = ExampleTree
    /\ given = ExampleOutcome
    /\ cret = "True"

\* the nodes an evaluation invoked
Invoked(tr) == { tr[i].path : i \in { j \in 1..Len(tr) : tr[j].ev = "call" } }

\* C18: for the same outcomes of the leaves check_convergence of the
\* checker combinators returns what __call__ of the core combinators
\* returns and invokes the same children: no later child once an earlier
\* child decided the value.
C18_SameLazySemantics ==
    BooleanOutcomes =>
        /\ cret = oret
        /\ Invoked(ctrace) = Invoked(otrace)

(***************************************************************************)
(* Claims about building composites.                                       *)
(***************************************************************************)
\* C17: building a composite, by an operator or by a constructor, with an
\* operand that is not a decision node raises TypeError and gives no node.
C17_InvalidOperandRaises ==
    (build.via # "none"
        /\ \E i \in 1..Len(build.args) : build.args[i].fam = "other")
    => build.result = TypeError

\* a | 1 with a hunter a raised TypeError
C17_Witness ==
    /\ build.via = "|"
    /\ build.args = <<CoreNode(Leaf(<<>>)), Other("int")>>
    /\ build.result = TypeError

(***************************************************************************)
(* Claims about estimate_parameters and the degraded estimate_mle.         *)
(***************************************************************************)
SameParametersCallAgain ==
    /\ reg_last.fn = "estimate_parameters"
    /\ reg_last'.fn = "estimate_parameters"
    /\ reg_last'.key = reg_last.key
    /\ reg_last'.t = reg_last.t
    /\ reg_last'.y = reg_last.y

\* C19: after an estimate_parameters call with cache key k that returned,
\* normally or through the fallback to estimate_mle, a second call with
\* the same data and key returns without running the sampler.
C19_SecondCallRunsNoSampler ==
    [][ (SameParametersCallAgain /\ reg_last.key # NoKey) =>
            ~reg_last'.sampled ]_vars

\* C20: when every attempt of an uncached estimate_mle call fails, the
\* value returned and cached is the closed-form guess as first computed,
\* and a warning is signalled.
C20_DegradedIsInitialGuess ==
    (reg_last.fn = "estimate_mle" /\ reg_last.computed
        /\ reg_last.attempts = MaxAttempts /\ reg_last.result.kind = "rough")
    => /\ reg_last.warned
       /\ reg_last.result = ClosedFormGuess
       /\ Cacheable(reg_last.key) =>
             mle_cache[reg_last.key].result = ClosedFormGuess

(***************************************************************************)
(* Claims about the reset of the direct children.                          *)
(***************************************************************************)
Composites == KindPaths("Or") \cup KindPaths("And")

\* the node at path c returned from a call of the most recent evaluation
ReturnedFrom(c) == Called(c) /\ Returned(c) # {}

\* C30: every evaluation of a composite resets _last_result of its two
\* direct children before it evaluates them: afterwards a direct child
\* that was skipped holds None, and a direct child that was evaluated
\* holds what this evaluation wrote, the result of a leaf that returned,
\* None otherwise.
C30_DirectChildrenReset ==
    \A p \in Composites :
        Called(p) =>
            \A c \in {p \o <<1>>, p \o <<2>>} :
                LET n == NodeAt(tree, c)
                IN  IF n.kind = "Leaf" /\ ReturnedFrom(c)
                    THEN Returned(c) = {n.last_result}
                    ELSE n.last_result = "None"

\* an OR returned on its first child and its second child, a leaf that
\* was skipped, holds None, while the AND above it went on to its second
\* child, a leaf that holds the False it returned
C30_Witness ==
    /\ tree.kind = "And"
    /\ Called(<<>>)
    /\ tree.base1.kind = "Or"
    /\ Returned(<<1, 1>>) = {"True"}
    /\ tree.base1.base2.kind = "Leaf"
    /\ ~Called(<<1, 2>>)
    /\ tree.base1.base2.last_result = "None"
    /\ tree.base2.kind = "Leaf"
    /\ Returned(<<2>>) = {"False"}
    /\ tree.base2.last_result = "False"

(***************************************************************************)
(* Claims about the rendering as a string.                                 *)
(***************************************************************************)
\* the rendering the claim describes: brackets around every composite and
\* the separators " OR " and " AND "
RECURSIVE Bracketed(_)
Bracketed(node) ==
    IF node.kind = "Leaf" THEN LeafStr(node)
    ELSE <<"[">> \o Bracketed(node.base1)
            \o (IF node.kind = "Or" THEN <<" ", "O", "R", " ">>
                                    ELSE <<" ", "A", "N", "D", " ">>)
            \o <<"\n">> \o Bracketed(node.base2) \o <<"]">>

\* C29: the string of an OR composite of X and Y is "[X OR \nY]", of an
\* AND composite "[X AND \nY]", and nested composites follow the same rule
\* with one bracket pair per composite.
C29_StrIsBracketedOrAnd ==
    described.of \in {"_CoreBase.__str__", "BaseChecker.__str__"} =>
        described.str = Bracketed(described.node)

(***************************************************************************)
(* Claims about names and the pattern of the naming format.                *)
(***************************************************************************)
\* C25: every name get_name returns is accepted by matches_naming_format
\* of the same controller, for every naming format and every count the
\* controller reaches.
C25_ReturnedNameMatches ==
    calls > 0 => matches_naming_format(name) = Returns(TRUE)

(***************************************************************************)
(* Claims about the construction of MinFuncCalls.                          *)
(***************************************************************************)
\* the value is an integer greater than zero
PositiveInteger(v) == IsInstanceInt(v) /\ v.halves > 0

\* C26: MinFuncCalls(min_pts) with a min_pts that is not a positive
\* integer raises ValueError, and every MinFuncCalls that exists has a
\* positive threshold.
C26_BadMinPtsIsValueError ==
    build.via = "MinFuncCalls" =>
        /\ ~PositiveInteger(build.args[1]) => build.result = ValueError
        /\ build.result.fam = "core" => build.result.node.min_pts > 0

(***************************************************************************)
(* Claims about EstimatedEffects.                                          *)
(***************************************************************************)
\* the shapes add_trajectory is meant to take: (g+1, k) and (g+1, h), or a
\* flat vector of length g+1 when h = 1
WellShaped(inst, trajectory, outputs) ==
    /\ trajectory = <<G(inst) + 1, inst.dims>>
    /\ \/ outputs = <<G(inst) + 1, inst.out_dims>>
       \/ inst.out_dims = 1 /\ outputs = <<G(inst) + 1>>

\* C27: add_trajectory raises ValueError exactly when the shape of the
\* trajectory or of the outputs is wrong; a well shaped pair is appended
\* and r grows by one; on error trajectories and outputs stay as they were.
C27_AddTrajectoryChecksShapes ==
    [][ ee'.last = "add_trajectory" =>
            IF WellShaped(ee, ee'.args[1], ee'.args[2])
            THEN /\ ee'.raised = "none"
                 /\ Len(ee'.trajectories) = Len(ee.trajectories) + 1
                 /\ Len(ee'.outputs) = Len(ee.outputs) + 1
            ELSE /\ ee'.raised = "ValueError"
                 /\ ee'.trajectories = ee.trajectories
                 /\ ee'.outputs = ee.outputs ]_vars

\* every factor (row) of the matrix is a member of exactly one group
OneGroupEach(mat, k) ==
    /\ Len(mat) = k
    /\ \A i \in 1..Len(mat) :
          Cardinality({ j \in 1..Len(mat[i]) : mat[i][j] # 0 }) = 1

\* C28: constructing EstimatedEffects with a grouping matrix in which some
\* factor is not in exactly one group raises ValueError; every instance
\* that exists has each of its k factors in exactly one group.
C28_EachFactorInOneGroup ==
    /\ (ee.last = "__init__" /\ ee.args[3] # NoGroupings
           /\ ~OneGroupEach(ee.args[3], ee.args[1]))
       => ee.raised = "ValueError"
    /\ ee.state = "built" => OneGroupEach(ee.groupings, ee.dims)


\* the step evaluated the hunter expression and one of its leaves raised:
\* MinFuncCalls holds no result, or it returned True and the second hunter
\* holds none
HuntLeafRaised ==
    /\ PairStep
    /\ evaluated'
    /\ \/ hunters'.base1.last_result = "None"
       \/ /\ hunters'.base1.last_result = "True"
          /\ hunters'.base2.last_result = "None"

\* the step evaluated the convergence expression and its third checker,
\* called after the first two returned False, raised
ConvLeafRaised ==
    /\ pc = "check"
    /\ pc' # "check"
    /\ checkers'.base1.base1.last_result = "False"
    /\ checkers'.base1.base2.last_result = "False"
    /\ checkers'.base2.last_result = "None"

\* C21: an exception raised by a leaf comes out of the evaluation of the
\* whole expression, and the loop takes that evaluation as false: the hunt
\* pair kills no worker and the round goes on, the convergence check does
\* not stop the run and the loop goes to its next iteration (unless a stop
\* was requested, which ends the run as it would without the exception).
C21_RaisingLeafCountsAsFalse ==
    [][ /\ HuntLeafRaised =>
              /\ hunt_ret' = "Raise"
              /\ wstate' = wstate
              /\ kill_counter' = kill_counter
              /\ hunt_victims' = hunt_victims
              /\ run_state' = run_state
              /\ pc' \in {"hunt", "check"}
        /\ ConvLeafRaised =>
              /\ conv_ret' = "Raise"
              /\ wstate' = wstate
              /\ run_state' = (IF stop_requested THEN "CONVERGING" ELSE "RUNNING")
              /\ pc' = (IF stop_requested THEN "conv" ELSE "drain")
      ]_vars

\* the last hunt pair of a round and the convergence check after it both
\* raised, and the loop is at the start of its next iteration
C21_Witness ==
    /\ run_state = "RUNNING"
    /\ pc = "drain"
    /\ evaluated
    /\ hunt_ret = "Raise"
    /\ conv_ret = "Raise"
    /\ hunters.base1.last_result = "True"
    /\ ~stop_requested
    /\ kill_counter = 1

\* the workers whose history the step made longer
Grown == { w \in Workers : f_call_opt'[w] # f_call_opt[w] }

\* C23: a point of a killed worker that arrives after the kill goes into
\* the trajectory store (the history of that worker grows by that point)
\* and is counted in f_counter like any other point; a killed worker stays
\* killed, and no hunt pair evaluated later has it as its victim.
C23_LatePointKeptNeverVictim ==
    [][ /\ (pc = "drain" /\ pc' # "drain") =>
              /\ \A w \in late' :
                    /\ wstate[w] = "KILLED"
                    /\ f_call_opt'[w] =
                          Append(f_call_opt[w], Len(f_call_opt[w]) + 1)
              /\ late' \subseteq Grown
              /\ f_counter' = f_counter + Cardinality(Grown)
        /\ (PairStep /\ evaluated') =>
              /\ ThePair[2] \notin hunt_victims
              /\ wstate[ThePair[2]] # "KILLED"
        /\ \A w \in hunt_victims :
              /\ w \in hunt_victims'
              /\ wstate'[w] = "KILLED"
      ]_vars

\* a worker was killed after its first call, its second call arrived at
\* the next drain, and in the round after that every pair with it as the
\* victim was passed over while another worker was there to hunt
C23_Witness ==
    /\ pc = "hunt"
    /\ ~evaluated
    /\ \E w \in late :
          /\ wstate[w] = "KILLED"
          /\ Len(f_call_opt[w]) = EarlyMinPts + 1
          /\ \A h \in Workers : <<h, w>> \notin todo
          /\ \E h \in Workers \ {w} :
                wstate[h] = "RUNNING" /\ EnoughHistory(h)
    /\ f_counter = Len(f_call_opt[1]) + Len(f_call_opt[2]) + Len(f_call_opt[3])

\* C22: a run whose convergence check gave true or that was asked to stop
\* reaches STOPPED, also when a hunter raised on the way; run_state only
\* moves along STARTING, RUNNING, CONVERGING, STOPPED; at STOPPED no worker
\* is RUNNING and the summary holds one record for each started worker and
\* no other.
C22_StopsWithFullSummary ==
    /\ (conv_ret = "True" \/ stop_requested) ~> (run_state = "STOPPED")
    /\ [][ \/ run_state' = run_state
           \/ <<run_state, run_state'>> \in
                 { <<"STARTING", "RUNNING">>, <<"RUNNING", "CONVERGING">>,
                   <<"CONVERGING", "STOPPED">> } ]_vars
    /\ [](run_state = "STOPPED" =>
            /\ \A w \in DOMAIN wstate : wstate[w] # "RUNNING"
            /\ o_counter = Cardinality(Workers)
            /\ Cardinality(summary) = o_counter
            /\ \A w \in Workers :
                  Cardinality({ rec \in summary : rec.opt_id = w }) = 1)

\* a run that stopped on a true convergence check after its hunter had
\* raised: one worker was killed, one converged, one was stopped at the
\* end, and each has its record
C22_Witness ==
    /\ run_state = "STOPPED"
    /\ ~stop_requested
    /\ hunt_ret = "Raise"
    /\ conv_ret = "True"
    /\ \E a \in Workers, b \in Workers, c \in Workers :
          /\ wstate[a] = "KILLED" /\ wstate[b] = "CONVERGED"
          /\ wstate[c] = "STOPPED"
          /\ { rec.opt_id : rec \in summary } = {a, b, c}
          /\ \E rec \in summary :
                rec.opt_id = c /\ rec.end_cond = "manager convergence"
                               /\ rec.f_calls = Len(f_call_opt[c])

\* C24: at every step at which the manager asks, a checkpoint is made if
\* and only if the time since the last one has reached a finite
\* time frequency, or the calls since the last one a finite iteration
\* frequency, or the run just started and checkpoint_at_init is set, or it
\* just converged and checkpoint_at_conv is set; a run under
\* CheckpointingControl() never makes one.
C24_TriggeredIffConditionHolds ==
    /\ trig.phase \in {"loop", "stopped"} =>
          (trig.fired <=>
              \/ /\ ~trig.ctl.checkpoint_time_frequency.inf
                 /\ trig.asked[2] >= trig.ctl.checkpoint_time_frequency.val
              \/ /\ ~trig.ctl.checkpoint_iter_frequency.inf
                 /\ trig.asked[3] >= trig.ctl.checkpoint_iter_frequency.val
              \/ trig.asked[1] = "init" /\ trig.ctl.checkpoint_at_init
              \/ trig.asked[1] = "conv" /\ trig.ctl.checkpoint_at_conv)
    /\ trig.ctl = DefaultControl => ~trig.fired

\* a control with a time frequency only: the pass of the loop at which
\* that much time has gone by makes a checkpoint, after a pass that made
\* calls and no checkpoint
C24_Witness ==
    /\ trig.phase = "loop"
    /\ trig.ctl = CheckpointingControl(Finite(MaxFreq), Infinite, FALSE, FALSE)
    /\ trig.asked = <<"loop", MaxFreq, MaxSince>>
    /\ trig.fired
    /\ trig.elapsed = 0

(***************************************************************************)
(* Claims about the result a leaf stores.                                  *)
(***************************************************************************)
\* steps of the leaves: an evaluation of the checker, of the hunter
KacEvaluated == kac_mgr' = kac_mgr /\ kac' = KacCall(kac, kac_mgr)

MfcEvaluated ==
    \E history \in Histories :
        mfc' = LeafCall(mfc, LogOf(history), <<>>).node

StoredResults == {"None", "True", "False"}

\* C31: after every evaluation of a MinFuncCalls hunter or of a
\* KillsAfterConvergence checker that returned, the _last_result of the
\* leaf is the boolean returned; _last_result changes at an evaluation of
\* the leaf only, and an evaluation that raises leaves it as it was; what
\* an evaluation returns is the same whatever _last_result holds.
C31_StoredResultIsReturned ==
    /\ [](kac_ret # "None" => kac.last_result = kac_ret)
    /\ [](mfc_ret \in {"True", "False"} => mfc.last_result = mfc_ret)
    /\ [][ /\ kac'.last_result # kac.last_result => KacEvaluated
           /\ mfc'.last_result # mfc.last_result => MfcEvaluated
           /\ (mfc_ret' = "Raise" /\ mfc_ret # "Raise") =>
                 mfc'.last_result = mfc.last_result ]_vars
    /\ [](\A stored \in StoredResults :
            /\ KacCall([kac EXCEPT !.last_result = stored], kac_mgr).last_result
                  = KacCall(kac, kac_mgr).last_result
            /\ \A history \in Histories :
                  LET log == LogOf(history)
                      other == LeafCall([mfc EXCEPT !.last_result = stored],
                                        log, <<>>)
                      this == LeafCall(mfc, log, <<>>)
                  IN  other.exc = this.exc /\ other.res = this.res)

\* a checker that took a baseline of one kill and gave True three kills
\* later; a hunter that
\* gave True and then raised on a victim without history
C31_Witness ==
    /\ kac.n_killed = 2 /\ kac.n_converged = 2
    /\ kac.enough_conv
    /\ kac.kill_count = 1
    /\ Cardinality(kac_mgr.hunt_victims) = 4
    /\ kac_ret = "True"
    /\ kac.last_result = "True"
    /\ mfc.min_pts = MinPts
    /\ mfc_ret = "Raise"
    /\ mfc.last_result = "True"

\* C32: the baseline kill_count is set at the first evaluation that sees
\* conv_counter >= n_converged, to the number of workers killed by then, and
\* at no other step; it never changes afterwards, and a true result needs
\* n_killed kills on top of the baseline, so that no kill made before that
\* evaluation counts.
C32_BaselineSetOnce ==
    [][ /\ ~kac.enough_conv =>
              /\ kac.kill_count = 0
              /\ kac'.enough_conv <=>
                    (kac_mgr' = kac_mgr
                        /\ kac_mgr.conv_counter >= kac.n_converged)
              /\ kac'.enough_conv =>
                    kac'.kill_count = Cardinality(kac_mgr.hunt_victims)
        /\ kac.enough_conv =>
              /\ kac'.enough_conv
              /\ kac'.kill_count = kac.kill_count
        /\ (kac_mgr' = kac_mgr /\ kac_ret' = "True") =>
              Cardinality(kac_mgr.hunt_victims) - kac'.kill_count
                  >= kac.n_killed
      ]_vars

\* KillsAfterConvergence(2, 1): a worker was killed after the first one
\* converged and before the first evaluation, which put it in the baseline;
\* the checker gives true two kills later
C32_Witness ==
    /\ kac.n_killed = 2 /\ kac.n_converged = 1
    /\ kac.enough_conv
    /\ kac.kill_count = 1
    /\ conv_moment = <<0>>
    /\ Cardinality(kac_mgr.hunt_victims) = 3
    /\ kac_ret = "True"

\* C33: on a manager whose kill set only grows and whose converged counter
\* never decreases, a KillsAfterConvergence checker that returned true
\* returns true at every later evaluation, and its enough_conv flag, once
\* true, stays true.
C33_TrueStaysTrue ==
    [][ /\ kac_mgr.hunt_victims \subseteq kac_mgr'.hunt_victims
        /\ kac_mgr.conv_counter <= kac_mgr'.conv_counter
        /\ kac_ret = "True" => kac_ret' = "True"
        /\ kac.enough_conv => kac'.enough_conv
      ]_vars

\* KillsAfterConvergence(1, 1) gives true with two more kills than it
\* asks for and more converged workers than it asks for
C33_Witness ==
    /\ kac.n_killed = 1 /\ kac.n_converged = 1
    /\ kac_ret = "True"
    /\ kac.last_result = "True"
    /\ Cardinality(kac_mgr.hunt_victims) - kac.kill_count = 3
    /\ kac_mgr.conv_counter = MaxConv

(***************************************************************************)
(* Claims about the counters of the manager.                               *)
(***************************************************************************)
\* C34: in every state of a run the kill counter is the number of ids in
\* the kill set and every id in the kill set is that of a KILLED worker;
\* the counter and the set change only at a hunt pair that was evaluated,
\* which adds the id of its victim, and no other, and raises the counter
\* by one.
C34_KillCounterIsKillSetSize ==
    /\ [](/\ kill_counter = Cardinality(hunt_victims)
          /\ \A w \in hunt_victims : wstate[w] = "KILLED")
    /\ [][ (kill_counter' # kill_counter \/ hunt_victims' # hunt_victims) =>
              /\ PairStep
              /\ evaluated'
              /\ ThePair[2] \notin hunt_victims
              /\ hunt_victims' = hunt_victims \cup {ThePair[2]}
              /\ kill_counter' = kill_counter + 1 ]_vars

\* the second kill of a run, made in a later round than the first
C34_Witness ==
    /\ pc = "hunt"
    /\ evaluated
    /\ hunt_ret = "True"
    /\ kill_counter = 2
    /\ Cardinality(hunt_victims) = 2
    /\ Cardinality(round_killed) = 1
    /\ \A w \in hunt_victims : wstate[w] = "KILLED"

(***************************************************************************)
(* Claims about the retry loop of estimate_mle.                            *)
(***************************************************************************)
\* C35: an uncached estimate_mle call runs minimize once from the initial
\* guess and then at most 10 times more, each time from a guess perturbed
\* once more; it makes no attempt after a successful one, whose result it
\* returns; and it always ends, with a successful fit or, after a warning,
\* with the rough estimate, which is what estimate_mle as a whole gives.
C35_RetriesBoundedFirstSuccessReturned ==
    /\ [](/\ mle.minimized - 1 <= 10
          /\ mle.minimized <= MaxAttempts
          /\ mle.perturbed = (IF mle.minimized = 0 THEN 0
                                                   ELSE mle.minimized - 1)
          /\ mle.pc = "loop" => (mle.succeeded = 0 /\ mle.result = NoResult)
          /\ mle.pc = "done" =>
                /\ mle.minimized >= 1
                /\ mle.succeeded <= 1
                /\ mle.succeeded = 1 <=> mle.result = MleResult(mle.x)
                /\ mle.succeeded = 0 <=>
                      (mle.warned /\ mle.result.kind = "rough")
                /\ LET o == MleOutcome(mle.t, mle.y, NoKey,
                                       IF mle.succeeded = 1
                                       THEN mle.minimized - 1
                                       ELSE MaxAttempts, mle.x)
                   IN  /\ o.attempts = mle.minimized
                       /\ o.warned = mle.warned
                       /\ o.result = mle.result)
    /\ (mle.pc = "loop") ~> (mle.pc = "done")

\* the call returned the fit of its last retry
C35_Witness ==
    /\ mle.pc = "done"
    /\ mle.minimized = MaxAttempts
    /\ mle.perturbed = MaxAttempts - 1
    /\ mle.succeeded = 1
    /\ mle.result = MleResult(mle.x)
    /\ ~mle.warned
    /\ Cacheable(mle.key)
    /\ mle_cache[mle.key].result = mle.result

(***************************************************************************)
(* Claims about what a regressor call leaves alone.                        *)
(***************************************************************************)
\* the entries of all keys but k are the same before and after the step
SameButFor(cache_before, cache_after, k) ==
    /\ DOMAIN cache_after \subseteq DOMAIN cache_before \cup {k}
    /\ \A j \in DOMAIN cache_before \ {k} :
          j \in DOMAIN cache_after /\ cache_after[j] = cache_before[j]

\* C36: a regressor call with cache key k leaves the entries of every other
\* key of both caches as they were; estimate_mle leaves mcc_cache as it
\* was, and an estimate_parameters call that did not fall back to the MLE
\* leaves mle_cache as it was.
C36_CallTouchesOwnEntryOnly ==
    [][ /\ SameButFor(mle_cache, mle_cache', reg_last'.key)
        /\ SameButFor(mcc_cache, mcc_cache', reg_last'.key)
        /\ reg_last'.fn = "estimate_mle" => mcc_cache' = mcc_cache
        /\ (reg_last'.fn = "estimate_parameters" /\ ~reg_last'.warned) =>
              mle_cache' = mle_cache
      ]_vars

\* a sampling call for worker 2 has just rewritten its entry of mcc_cache
\* for new data, with both caches holding entries of worker 1 and
\* mle_cache one of worker 2
C36_Witness ==
    /\ reg_last.fn = "estimate_parameters"
    /\ reg_last.key = <<2>>
    /\ reg_last.sampled /\ ~reg_last.warned
    /\ DOMAIN mle_cache = {<<1>>, <<2>>}
    /\ DOMAIN mcc_cache = {<<1>>, <<2>>}
    /\ mcc_cache[<<2>>].hash = HashKey(reg_last.t, reg_last.y)
    /\ mle_cache[<<2>>].hash # HashKey(reg_last.t, reg_last.y)
    /\ mcc_cache[<<1>>].hash # mle_cache[<<1>>].hash

\* C37: two hunt evaluations running on one shared regressor with different
\* cache keys never wait for each other (a call that has been entered can
\* always take its next step, whatever the other call is doing), and in
\* every interleaving the cache holds for each key the entry written by
\* that key's own call, whose result is the one computed from the data
\* whose hash is stored beside it; a call that returned from the cache
\* returned that result.
C37_ConcurrentCallsKeepOwnEntries ==
    /\ \A w \in Threads : thr[w].pc # "idle" => ENABLED ThrStep(w)
    /\ DOMAIN mle_cache \subseteq { ThrKey(w) : w \in Threads }
    /\ \A w \in Threads :
          /\ ThrKey(w) \in DOMAIN mle_cache <=> thr[w].last # NoItem
          /\ ThrKey(w) \in DOMAIN mle_cache =>
                /\ mle_cache[ThrKey(w)] = thr[w].last
                /\ \E d \in ThrTrajectories, success \in BOOLEAN :
                      /\ mle_cache[ThrKey(w)].hash = HashKey(d.t, d.y)
                      /\ mle_cache[ThrKey(w)].result = Computed(d.t, d.y, success)
          /\ (thr[w].pc = "idle" /\ thr[w].calls > 0) =>
                /\ ThrKey(w) \in DOMAIN mle_cache
                /\ thr[w].result = mle_cache[ThrKey(w)].result
                /\ thr[w].hash_key = mle_cache[ThrKey(w)].hash

\* both calls are under way at once on a cache that has an entry for each
\* key: one is about to overwrite its entry with an estimate from new data,
\* the other has found its entry and is about to return it
C37_Witness ==
    /\ thr # << >>
    /\ thr[1].pc = "write"
    /\ thr[2].pc = "hit"
    /\ DOMAIN mle_cache = {<<1>>, <<2>>}
    /\ thr[1].hash_key # mle_cache[<<1>>].hash
    /\ mle_cache[<<1>>].hash = mle_cache[<<2>>].hash
    /\ mle_cache[<<1>>].result # mle_cache[<<2>>].result

\* C38: retention never deletes a directory entry whose name does not match
\* the naming pattern of the controller, whatever keep_past is and whatever
\* checkpoints were written before; with keep_past = -1 no entry at all is
\* deleted.
C38_RetentionSparesOtherNames ==
    [][ /\ \A e \in dir : matches_naming_format(e) # Returns(TRUE) => e \in dir'
        /\ keep_past = -1 => dir \subseteq dir' ]_vars

\* with keep_past = 1 two checkpoints were written over a directory that
\* held a checkpoint of an earlier run and a name of another kind: the
\* earlier checkpoints are gone, the other name is still there
C38_Witness ==
    /\ keep_past = 1
    /\ last_write = "ok"
    /\ calls = 2
    /\ HasCount(naming_format)
    /\ Expand(naming_format, EarlierTime, 5) \notin dir
    /\ Str(<<"x">>) \in dir
    /\ matches_naming_format(Str(<<"x">>)) = Returns(FALSE)
    /\ dir = {name, Str(<<"x">>)}

\* the characters of entry from pos on start with an expansion of the
\* items k.. of a format: digits where a special key stands, the
\* character itself elsewhere
RECURSIVE ExpansionFrom(_, _, _, _)
ExpansionFrom(items, k, entry, pos) ==
    IF k > Len(items) THEN TRUE
    ELSE LET last == pos + items[k].width - 1
         IN  /\ last <= Len(entry)
             /\ IF items[k].kind = "char"
                THEN entry[pos] = items[k].char
                ELSE \A j \in pos..last : IsDigit(entry[j])
             /\ ExpansionFrom(items, k + 1, entry, last + 1)

HasExpansionPrefix(entry) == ExpansionFrom(ItemsOf[naming_format], 1, entry, 1)

\* the counts of the entries that start with an expansion
CountsRead ==
    LET p == CountPos(ItemsOf[naming_format], 1)
    IN  { ParseInt(SubSeq(e, p, p + CountWidth - 1)) :
            e \in { f \in dir : HasExpansionPrefix(f) } }

\* C39: matches_naming_format(name) is a prefix test: it is true exactly
\* when some prefix of name is an expansion of the naming format (a run of
\* digits of the fixed width for each date/time key, three digits for
\* %(count)), whatever follows that prefix; and get_name reads the count of
\* such an entry from the three digits at the place of %(count).
C39_MatchIsPrefixTest ==
    /\ [](\A e \in dir :
             matches_naming_format(e) = Returns(TRUE) <=> HasExpansionPrefix(e))
    /\ [][ (HasCount(naming_format) /\ calls' = calls + 1 /\ dir_exists) =>
              count' =
                 <<IF CountsRead = {} THEN 1 ELSE SetMax(CountsRead) + 2>> ]_vars

====
